---- MODULE Spec2Model ----
(***************************************************************************)
(* A model of dwsh (src/dwsh.py): the Tokenizer, the Parser, and the       *)
(* execution of the parsed tree by the shell process and its forked        *)
(* children, with every process's file-descriptor table.                   *)
(*                                                                         *)
(* A character is a one-character string; a line, a word and a path are    *)
(* sequences of characters.  Python's None is the string "None".           *)
(***************************************************************************)
EXTENDS Integers, Sequences, FiniteSets, TLC

VARIABLES
    tokenizer,  \* the Tokenizer object: string, position, char
    yielded,    \* the tokens the generator Tokenizer.__iter__ has yielded
    iterst,     \* the generator: "active", "last" (EOF yielded), "finished", "raised"
    procs,      \* the processes: pid -> process record (0 is the shell)
    npid,       \* the last pid os.fork returned
    npipe,      \* the number of pipes os.pipe has made
    nfile,      \* the number of open file descriptions os.open has made
    nread,      \* the number of lines read from the input
    created     \* the files created by os.open with O_CREAT, in order

lexvars == <<tokenizer, yielded, iterst>>
exevars == <<procs, npid, npipe, nfile, nread, created>>
vars == <<tokenizer, yielded, iterst, procs, npid, npipe, nfile, nread, created>>

None == "None"

\* the value of body F at v: v is computed once, as an assignment does
Bind(v, F(_)) == F(v)

(***************************************************************************)
(* Bounds of the model.                                                    *)
(***************************************************************************)
MaxLen == 3     \* longest line the lexer specification draws
MaxParseLen == 5   \* longest line the parser specification draws
MaxLines == 2   \* lines read from the input in one run of the shell

(***************************************************************************)
(* Characters.                                                             *)
(***************************************************************************)
\* "CTRL" stands for one non-printable control character (such as \x01)
LexAlphabet == {"a", " ", ">", "<", "|", ";", "'", "\"", "CTRL"}

\* str.isspace
isspace(c) == c \in {" ", "\t", "\n"}

\* Tokenizer.WORD_CHARS = re.compile('[^><|;]'): any character but these four
WORD_CHARS(c) == c \notin {">", "<", "|", ";"}

(***************************************************************************)
(* Tokenizer                                                               *)
(***************************************************************************)
Token(ttype, lexeme, position) ==
    [ttype |-> ttype, lexeme |-> lexeme, position |-> position]

\* lexeme=None
NoLexeme == <<None>>

\* Tokenizer.read: advance the cursor and load self.char
read(t) ==
    LET p == t.position + 1
    IN  [t EXCEPT !.position = p,
                  !.char = IF p < Len(t.string) THEN t.string[p + 1] ELSE None]

\* Tokenizer.__init__
Tokenizer(string) == read([string |-> string, position |-> -1, char |-> None])

\* while self.char and self.char.isspace(): self.read()
RECURSIVE SkipSpace(_)
SkipSpace(t) ==
    IF t.char # None /\ isspace(t.char) THEN SkipSpace(read(t)) ELSE t

\* while self.char and self.char != end: value.append(self.char); self.read()
RECURSIVE QuotedRun(_, _, _)
QuotedRun(t, end, value) ==
    IF t.char # None /\ t.char # end
    THEN QuotedRun(read(t), end, Append(value, t.char))
    ELSE [t |-> t, value |-> value]

\* a faulty word loop that stops at whitespace only
RECURSIVE WordRun_greedy(_, _)
WordRun_greedy(t, value) ==
    IF t.char # None /\ ~isspace(t.char)
    THEN WordRun_greedy(read(t), Append(value, t.char))
    ELSE [t |-> t, value |-> value]

\* while self.char and WORD_CHARS.match(self.char) and not self.char.isspace()
RECURSIVE WordRun(_, _)
WordRun(t, value) ==
    IF t.char # None /\ WORD_CHARS(t.char) /\ ~isspace(t.char)
    THEN WordRun(read(t), Append(value, t.char))
    ELSE [t |-> t, value |-> value]

\* what Tokenizer.token returns: a token and the tokenizer afterwards
Returned(tok, t) == [raised |-> FALSE, tok |-> tok, t |-> t]

\* Tokenizer.token, lines 236-246: a quoted word that starts at the cursor of
\* t; q is the run read up to the closing quote or the end of the line
token_quoted(t, q) ==
    IF q.t.char = None
    THEN [raised |-> TRUE, tok |-> Token("NONE", NoLexeme, t.position), t |-> q.t]
    ELSE Returned(Token("WORD", q.value, t.position), read(q.t))

\* Tokenizer.token, lines 205-260, once the whitespace is skipped
token_at(t) ==
    IF t.char = None
    THEN Returned(Token("EOF", NoLexeme, t.position), t)
    ELSE IF t.char = ">"
    THEN Bind(read(t), LAMBDA t1 :
             IF t1.char = ">"
             THEN Returned(Token("REDIRECT_APPEND", NoLexeme, t.position), read(t1))
             ELSE Returned(Token("REDIRECT_OUT", NoLexeme, t.position), t1))
    ELSE IF t.char = "<"
    THEN Returned(Token("REDIRECT_IN", NoLexeme, t.position), read(t))
    ELSE IF t.char = "|"
    THEN Returned(Token("PIPE", NoLexeme, t.position), read(t))
    ELSE IF t.char = ";"
    THEN Returned(Token("COMMAND_END", NoLexeme, t.position), read(t))
    ELSE IF t.char \in {"'", "\""}
    THEN Bind(read(t), LAMBDA t1 : token_quoted(t1, QuotedRun(t1, t.char, <<>>)))
    ELSE IF WORD_CHARS(t.char)
    THEN Bind(WordRun(t, <<>>), LAMBDA w :
             Returned(Token("WORD", w.value, t.position), w.t))
    ELSE Returned(Token("UNKNOWN", <<t.char>>, t.position), read(t))

\* Tokenizer.token: the token read, the tokenizer afterwards, and whether
\* ValueError was raised instead of a token being returned
token(t0) == token_at(SkipSpace(t0))

\* a faulty break test that also takes ";" for the end of the line
IterBreaks_semicolon(tok) == tok.ttype \in {"EOF", "COMMAND_END"}

\* Tokenizer.__iter__: "if token.ttype == TokenType.EOF: break"
IterBreaks(tok) == tok.ttype = "EOF"

(***************************************************************************)
(* File descriptors.  A process's fd table is a function from its open fd  *)
(* numbers to open file descriptions <<kind, n>>.                          *)
(***************************************************************************)
\* the lowest fd number not open in table f (what dup, open and pipe return)
LowestFree(f) ==
    CHOOSE n \in 0..Cardinality(DOMAIN f) :
        /\ n \notin DOMAIN f
        /\ \A m \in 0..(n - 1) : m \in DOMAIN f

\* table f with fd n referring to description d
SetFd(f, n, d) == [k \in (DOMAIN f) \cup {n} |-> IF k = n THEN d ELSE f[k]]

\* table f with fd n closed
DelFd(f, n) == [k \in (DOMAIN f) \ {n} |-> f[k]]

(***************************************************************************)
(* Redirection objects live in a per-process heap (a sequence); the tree   *)
(* refers to them by index.                                                *)
(***************************************************************************)
\* a variant of Redirection.__init__ that opens the file at construction
Redirection_init_file_eager(fds, fd, filename, mode) ==
    LET backup == LowestFree(fds)
        duped  == SetFd(fds, backup, fds[fd])
        newfd  == LowestFree(duped)
    IN  [fds |-> SetFd(duped, newfd, <<"file", 0>>),
         obj |-> [fd |-> fd, backup |-> backup, newfd |-> newfd,
                  filename |-> filename, mode |-> mode]]

\* Redirection.__init__ with params a (filename, mode) tuple: self.backup =
\* os.dup(fd); newfd stays None; permissions default to 0o644
Redirection_init_file(fds, fd, filename, mode) ==
    LET backup == LowestFree(fds)
    IN  [fds |-> SetFd(fds, backup, fds[fd]),
         obj |-> [fd |-> fd, backup |-> backup, newfd |-> -1,
                  filename |-> filename, mode |-> mode]]

\* Redirection.__init__ with params an int (len() raises TypeError): newfd = params
Redirection_init_fd(fds, fd, newfd) ==
    LET backup == LowestFree(fds)
    IN  [fds |-> SetFd(fds, backup, fds[fd]),
         obj |-> [fd |-> fd, backup |-> backup, newfd |-> newfd,
                  filename |-> <<>>, mode |-> "none"]]

(***************************************************************************)
(* AST nodes                                                               *)
(***************************************************************************)
NoNode == [type |-> "None"]
CommandNode(args, id) == [type |-> "Command", args |-> args, id |-> id]
MultiNode(first, second) == [type |-> "Multi", first |-> first, second |-> second]
PipeNode(first, second) == [type |-> "Pipe", first |-> first, second |-> second]
\* redirections: the heap indices of the Redirections object's list
RedirectionsNode(base, redirections) ==
    [type |-> "Redirections", base |-> base, redirections |-> redirections]

(***************************************************************************)
(* Parser.  The parser state ps holds the tokenizer and its generator, the *)
(* lookahead self.token, self.last, the exception raised so far (err), and *)
(* what constructing nodes has done: the number of CommandNodes, the heap  *)
(* of Redirections and the fd table their os.dup calls changed.            *)
(***************************************************************************)
NoToken == Token("None", NoLexeme, -1)

\* Parser.next: self.last = self.token; self.token = next(self.tokens, None)
Parser_next(ps) ==
    IF ps.gen = "active"
    THEN Bind(token(ps.t), LAMBDA r :
             IF r.raised
             THEN [ps EXCEPT !.last = ps.token, !.t = r.t, !.gen = "raised",
                             !.err = "ValueError"]
             ELSE [ps EXCEPT !.last = ps.token, !.token = r.tok, !.t = r.t,
                             !.gen = IF IterBreaks(r.tok) THEN "last" ELSE "active"])
    ELSE [ps EXCEPT !.last = ps.token, !.token = NoToken, !.gen = "finished"]

\* Parser.__init__
Parser(string, fds, heap) ==
    Parser_next([t |-> Tokenizer(string), gen |-> "active", token |-> NoToken,
                 last |-> NoToken, err |-> "none", ncmd |-> 0,
                 fds |-> fds, heap |-> heap])

\* Parser.accept
accept(ps, ttype) ==
    IF ps.token # NoToken /\ ps.token.ttype = ttype
    THEN [ps |-> Parser_next(ps), ok |-> TRUE]
    ELSE [ps |-> ps, ok |-> FALSE]

\* Parser.expect
expect(ps, ttype) ==
    Bind(accept(ps, ttype), LAMBDA a :
        IF a.ok \/ a.ps.err # "none" THEN a
        ELSE [ps |-> [ps EXCEPT !.err = "ParseError"], ok |-> FALSE])

\* while self.accept(TokenType.WORD): args.append(self.last.lexeme)
RECURSIVE MoreWords(_, _)
MoreWords(ps, args) ==
    Bind(accept(ps, "WORD"), LAMBDA a :
        IF a.ps.err # "none" THEN [ps |-> a.ps, args |-> args]
        ELSE IF a.ok THEN MoreWords(a.ps, Append(args, a.ps.last.lexeme))
        ELSE [ps |-> ps, args |-> args])

\* Parser.command, from the first accept on
command_words(a) ==
    IF a.ps.err # "none" \/ ~a.ok THEN [ps |-> a.ps, node |-> NoNode]
    ELSE Bind(MoreWords(a.ps, <<a.ps.last.lexeme>>), LAMBDA w :
             IF w.ps.err # "none" THEN [ps |-> w.ps, node |-> NoNode]
             ELSE [ps |-> [w.ps EXCEPT !.ncmd = @ + 1],
                   node |-> CommandNode(w.args, w.ps.ncmd + 1)])

\* Parser.command
command(ps) == command_words(accept(ps, "WORD"))

\* the (target fd, open flags) of a redirection operator token
RedirOps ==
    [REDIRECT_OUT    |-> [fd |-> 1, mode |-> "O_CREAT|O_WRONLY|O_TRUNC"],
     REDIRECT_APPEND |-> [fd |-> 1, mode |-> "O_CREAT|O_WRONLY|O_APPEND"],
     REDIRECT_IN     |-> [fd |-> 0, mode |-> "O_RDONLY"]]

\* filename = self.expect(TokenType.WORD).lexeme; return Redirection(fd, ...)
redirection_file(op, e) ==
    IF e.ps.err # "none" THEN [ps |-> e.ps, redir |-> 0]
    ELSE Bind(Redirection_init_file(e.ps.fds, op.fd, e.ps.last.lexeme, op.mode),
              LAMBDA r :
                  [ps |-> [e.ps EXCEPT !.fds = r.fds, !.heap = Append(@, r.obj)],
                   redir |-> Len(e.ps.heap) + 1])

\* Parser.redirection: the heap index of the Redirection made, 0 for None
redirection(ps) ==
    IF ps.token # NoToken /\ ps.token.ttype \in DOMAIN RedirOps
    THEN Bind(accept(ps, ps.token.ttype), LAMBDA a :
             redirection_file(RedirOps[ps.token.ttype],
                              IF a.ps.err # "none" THEN a ELSE expect(a.ps, "WORD")))
    ELSE [ps |-> ps, redir |-> 0]

\* the loop of Parser.redirections
RECURSIVE MoreRedirs(_, _)
MoreRedirs(ps, redirs) ==
    Bind(redirection(ps), LAMBDA r :
        IF r.ps.err # "none" \/ r.redir = 0 THEN [ps |-> r.ps, redirs |-> redirs]
        ELSE MoreRedirs(r.ps, Append(redirs, r.redir)))

\* Parser.redirections: the list of a Redirections object, <<>> for None
redirections(ps) == MoreRedirs(ps, <<>>)

\* a faulty Parser.line that does not test other for None
line_pipe_unchecked(base, other) ==
    IF other.ps.err # "none" THEN [ps |-> other.ps, node |-> NoNode]
    ELSE [ps |-> other.ps, node |-> PipeNode(base, other.node)]

\* Parser.line, lines 344-346: other = self.line() has returned
line_pipe(base, other) ==
    IF other.ps.err # "none" THEN [ps |-> other.ps, node |-> NoNode]
    ELSE IF other.node = NoNode
    THEN [ps |-> [other.ps EXCEPT !.err = "ParseError"], node |-> NoNode]
    ELSE [ps |-> other.ps, node |-> PipeNode(base, other.node)]

\* Parser.line
RECURSIVE line(_)
line(ps) ==
    Bind(command(ps), LAMBDA c :
        IF c.ps.err # "none" \/ c.node = NoNode THEN c
        ELSE Bind(redirections(c.ps), LAMBDA rs :
            IF rs.ps.err # "none" THEN [ps |-> rs.ps, node |-> NoNode]
            ELSE Bind(accept(rs.ps, "PIPE"), LAMBDA a :
                IF a.ps.err # "none" THEN [ps |-> a.ps, node |-> NoNode]
                ELSE IF ~a.ok
                THEN [ps |-> rs.ps,
                      node |-> IF rs.redirs # <<>>
                               THEN RedirectionsNode(c.node, rs.redirs)
                               ELSE c.node]
                ELSE line_pipe(IF rs.redirs # <<>>
                               THEN RedirectionsNode(c.node, rs.redirs)
                               ELSE c.node,
                               line(a.ps)))))

\* a faulty Parser.lines that returns other whenever one half is None
lines_multi_drop(base, other) ==
    IF other.ps.err # "none" THEN [ps |-> other.ps, node |-> NoNode]
    ELSE IF base.node # NoNode /\ other.node # NoNode
    THEN [ps |-> other.ps, node |-> MultiNode(base.node, other.node)]
    ELSE other

\* Parser.lines, lines 323-331: other = self.lines() has returned
lines_multi(base, other) ==
    IF other.ps.err # "none" THEN [ps |-> other.ps, node |-> NoNode]
    ELSE IF base.node # NoNode /\ other.node # NoNode
    THEN [ps |-> other.ps, node |-> MultiNode(base.node, other.node)]
    ELSE IF base.node # NoNode
    THEN [ps |-> other.ps, node |-> base.node]
    ELSE other

\* Parser.lines
RECURSIVE lines(_)
lines(ps) ==
    Bind(line(ps), LAMBDA base :
        IF base.ps.err # "none" THEN base
        ELSE Bind(accept(base.ps, "COMMAND_END"), LAMBDA a :
            IF a.ps.err # "none" THEN [ps |-> a.ps, node |-> NoNode]
            ELSE IF ~a.ok THEN base
            ELSE lines_multi(base, lines(a.ps))))

\* a faulty Parser.parse that does not expect EOF after lines
parse_noeof(ps) ==
    Bind(lines(ps), LAMBDA root :
        IF root.ps.err # "none" THEN [ps |-> root.ps, node |-> NoNode]
        ELSE [ps |-> root.ps, node |-> root.node])

\* Parser.parse
parse(ps) ==
    Bind(lines(ps), LAMBDA root :
        IF root.ps.err # "none" THEN [ps |-> root.ps, node |-> NoNode]
        ELSE Bind(expect(root.ps, "EOF"), LAMBDA e :
            IF e.ps.err # "none" THEN [ps |-> e.ps, node |-> NoNode]
            ELSE [ps |-> e.ps, node |-> root.node]))

(***************************************************************************)
(* The environment of the shell: os.environ and the filesystem.  The       *)
(* static part of the filesystem is listed in directory order; the files   *)
(* that redirections create are added to it (variable created).            *)
(***************************************************************************)
\* os.environ: PATH=/h:/b HOME=/h
environ ==
    (<<"P", "A", "T", "H">> :> <<"/", "h", ":", "/", "b">>)
    @@ (<<"H", "O", "M", "E">> :> <<"/", "h">>)

\* directories, programs (executable), and other files
Dirs == <<<<"/">>, <<"/", "b">>, <<"/", "h">>>>
Progs == <<<<"/", "b", "/", "a">>, <<"/", "b", "/", "c">>, <<"/", "h", "/", "c">>>>
NonExec == <<<<"/", "b", "/", "d">>, <<"/", "f">>>>

SeqToSet(s) == {s[i] : i \in DOMAIN s}

\* every path that exists, in listing order
AllPaths(fs) == Dirs \o Progs \o NonExec \o fs

\* str.startswith
startswith(s, prefix) ==
    /\ Len(s) >= Len(prefix)
    /\ SubSeq(s, 1, Len(prefix)) = prefix

\* path resolution in the kernel skips an empty component and a "."
\* component: "//" and "/./" count as "/"
RECURSIVE Collapse(_)
Collapse(s) ==
    IF s = <<>> THEN <<>>
    ELSE IF startswith(s, <<"/", "/">>) THEN Collapse(Tail(s))
    ELSE IF startswith(s, <<"/", ".", "/">>) THEN Collapse(SubSeq(s, 3, Len(s)))
    ELSE <<Head(s)>> \o Collapse(Tail(s))

\* the absolute path the kernel resolves a name to, from working directory cwd
AbsPath(cwd, name) ==
    IF startswith(name, <<"/">>) THEN Collapse(name)
    ELSE Collapse(cwd \o <<"/">> \o name)

\* os.path.exists
exists(cwd, fs, name) == AbsPath(cwd, name) \in SeqToSet(AllPaths(fs))

\* os.path.join(di, filename)
path_join(di, filename) ==
    IF startswith(filename, <<"/">>) THEN filename
    ELSE IF di = <<>> \/ di[Len(di)] = "/" THEN di \o filename
    ELSE di \o <<"/">> \o filename

\* str.split(sep) for a one-character separator
RECURSIVE split(_, _)
split(s, sep) ==
    IF \E i \in DOMAIN s : s[i] = sep
    THEN LET i == CHOOSE k \in DOMAIN s : s[k] = sep /\ \A j \in 1..(k - 1) : s[j] # sep
         IN  <<SubSeq(s, 1, i - 1)>> \o split(SubSeq(s, i + 1, Len(s)), sep)
    ELSE <<s>>

\* a variant of the loop that keeps looking after a hit: the last hit wins
RECURSIVE lookup_path_last(_, _, _, _)
lookup_path_last(cwd, fs, filename, path) ==
    IF path = <<>> THEN [err |-> "CommandNotFoundError", value |-> filename]
    ELSE Bind(lookup_path_last(cwd, fs, filename, Tail(path)), LAMBDA later :
             IF later.err = "none" THEN later
             ELSE IF exists(cwd, fs, path_join(Head(path), filename))
             THEN [err |-> "none", value |-> path_join(Head(path), filename)]
             ELSE later)

\* the loop of CommandNode.lookup over the PATH entries
RECURSIVE lookup_path(_, _, _, _)
lookup_path(cwd, fs, filename, path) ==
    IF path = <<>> THEN [err |-> "CommandNotFoundError", value |-> filename]
    ELSE Bind(path_join(Head(path), filename), LAMBDA possible :
             IF exists(cwd, fs, possible) THEN [err |-> "none", value |-> possible]
             ELSE lookup_path(cwd, fs, filename, Tail(path)))

\* CommandNode.lookup
lookup(cwd, fs, filename, path) ==
    IF (startswith(filename, <<"/">>) \/ startswith(filename, <<".", "/">>))
       /\ exists(cwd, fs, filename)
    THEN [err |-> "none", value |-> filename]
    ELSE lookup_path(cwd, fs, filename, path)

\* str.isalpha, on the ASCII letters
isalpha(c) ==
    c \in {"a", "b", "c", "d", "e", "f", "g", "h", "i", "j", "k", "l", "m",
           "n", "o", "p", "q", "r", "s", "t", "u", "v", "w", "x", "y", "z",
           "A", "B", "C", "D", "E", "F", "G", "H", "I", "J", "K", "L", "M",
           "N", "O", "P", "Q", "R", "S", "T", "U", "V", "W", "X", "Y", "Z"}

\* the ${NAME} loop of expandvars, from 1-based index i
RECURSIVE BraceName(_, _, _)
BraceName(raw, i, name) ==
    IF i > Len(raw) THEN [err |-> "ValueError", i |-> i, name |-> name]
    ELSE IF raw[i] = "}" THEN [err |-> "none", i |-> i + 1, name |-> name]
    ELSE BraceName(raw, i + 1, Append(name, raw[i]))

\* the $NAME loop of expandvars
RECURSIVE PlainName(_, _, _)
PlainName(raw, i, name) ==
    IF i <= Len(raw) /\ (isalpha(raw[i]) \/ raw[i] = "_")
    THEN PlainName(raw, i + 1, Append(name, raw[i]))
    ELSE [err |-> "none", i |-> i, name |-> name]

\* the main loop of expandvars
RECURSIVE expandvars_from(_, _, _, _)
expandvars_from(raw, variables, i, result) ==
    IF i > Len(raw) THEN [err |-> "none", value |-> result]
    ELSE IF raw[i] = "$"
    THEN IF i + 1 > Len(raw) THEN [err |-> "IndexError", value |-> result]
         ELSE Bind(IF raw[i + 1] = "{" THEN BraceName(raw, i + 2, <<>>)
                   ELSE PlainName(raw, i + 1, <<>>),
                   LAMBDA n :
                     IF n.err # "none" THEN [err |-> n.err, value |-> result]
                     ELSE IF n.name \notin DOMAIN variables
                     THEN [err |-> "KeyError", value |-> result]
                     ELSE expandvars_from(raw, variables, n.i,
                                          result \o variables[n.name]))
    ELSE expandvars_from(raw, variables, i + 1, Append(result, raw[i]))

\* CommandNode.expandvars
expandvars(raw, variables) == expandvars_from(raw, variables, 1, <<>>)

\* fnmatch of one pattern against one name; "*" matches within a path component
RECURSIVE fnmatch(_, _)
fnmatch(name, pat) ==
    IF pat = <<>> THEN name = <<>>
    ELSE IF Head(pat) = "*"
    THEN \/ fnmatch(name, Tail(pat))
         \/ name # <<>> /\ Head(name) # "/" /\ fnmatch(Tail(name), pat)
    ELSE name # <<>> /\ Head(name) = Head(pat) /\ fnmatch(Tail(name), Tail(pat))

\* the name by which glob reports absolute path p for pattern raw: itself for
\* an absolute pattern, else relative to cwd (<<>> when not below cwd)
GlobName(cwd, raw, p) ==
    LET dir == IF cwd = <<"/">> THEN cwd ELSE cwd \o <<"/">>
    IN  IF startswith(raw, <<"/">>) THEN p
        ELSE IF startswith(p, dir) THEN SubSeq(p, Len(dir) + 1, Len(p))
        ELSE <<>>

\* glob.glob(raw): the existing paths that match, in listing order
RECURSIVE glob_list(_, _, _)
glob_list(cwd, raw, paths) ==
    IF paths = <<>> THEN <<>>
    ELSE Bind(GlobName(cwd, raw, Head(paths)), LAMBDA n :
             (IF n # <<>> /\ fnmatch(n, raw) THEN <<n>> ELSE <<>>)
             \o glob_list(cwd, raw, Tail(paths)))

\* CommandNode.glob
glob(cwd, fs, raw) ==
    IF \E i \in DOMAIN raw : raw[i] = "*"
    THEN glob_list(cwd, raw, AllPaths(fs))
    ELSE <<raw>>

\* [item for sublist in args for item in sublist]
RECURSIVE flatten(_)
flatten(lists) ==
    IF lists = <<>> THEN <<>> ELSE Head(lists) \o flatten(Tail(lists))

\* [self.expandvars(arg, variables) for arg in self.args]: the exception of
\* the first word that raises, "none" if none does
RECURSIVE expand_all(_, _)
expand_all(args, variables) ==
    IF args = <<>> THEN [err |-> "none", value |-> <<>>]
    ELSE Bind(expandvars(Head(args), variables), LAMBDA e :
             IF e.err # "none" THEN [err |-> e.err, value |-> <<>>]
             ELSE Bind(expand_all(Tail(args), variables), LAMBDA r :
                      IF r.err # "none" THEN r
                      ELSE [err |-> "none", value |-> <<e.value>> \o r.value]))

\* the argv CommandNode.execute builds (lines 436-441): the expansion is
\* computed, then the globbing reads self.args again
build_argv(cwd, fs, selfargs, variables) ==
    Bind(expand_all(selfargs, variables), LAMBDA expanded :
        IF expanded.err # "none" THEN [err |-> expanded.err, value |-> <<>>]
        ELSE [err |-> "none",
              value |-> flatten([i \in DOMAIN selfargs |->
                                    glob(cwd, fs, selfargs[i])])])

(***************************************************************************)
(* Execution.  Every process runs the interpreter below on its own stack   *)
(* of frames; a frame is one activation of a method of the source, with    *)
(* the node it runs on, its position pc in the method's list of steps, and *)
(* its locals.  A step is a call of execute or wait on a child node, or    *)
(* one of the operations named below.                                      *)
(***************************************************************************)
CallStep(target, method) == [op |-> "call", target |-> target, method |-> method]
OpStep(name) == [op |-> name, target |-> "", method |-> ""]

\* Shell.run: while True: line = self.readline() ...; self.execute(line)
Shell_run_steps == <<OpStep("readline")>>

\* Shell.execute: parse; root.execute(...) in the try; finally: root.wait()
Shell_execute_steps ==
    <<OpStep("parse"), CallStep("root", "execute"), CallStep("root", "wait")>>

\* CommandNode.execute: lines 436-452 and 460 in the parent, 455-457 in the child
CommandNode_execute_steps == <<OpStep("dispatch"), OpStep("hooks"), OpStep("execv")>>

\* CommandNode.wait: if self.pid: os.waitpid(self.pid, 0)
CommandNode_wait_steps == <<OpStep("if self.pid"), OpStep("waitpid")>>

\* a faulty MultiNode.execute that does not wait for the first half
MultiNode_execute_steps_nowait ==
    <<CallStep("first", "execute"),
      CallStep("second", "execute"), CallStep("second", "wait")>>

\* MultiNode.execute
MultiNode_execute_steps ==
    <<CallStep("first", "execute"), CallStep("first", "wait"),
      CallStep("second", "execute"), CallStep("second", "wait")>>

\* MultiNode defines no wait: Node.wait, whose body is pass
Node_wait_steps == <<>>

\* PipeNode.execute
PipeNode_execute_steps ==
    <<OpStep("pipe"),
      OpStep("outp.enter"), CallStep("first", "execute"), OpStep("outp.exit"),
      OpStep("outp.close"),
      OpStep("inp.enter"), CallStep("second", "execute"), OpStep("inp.exit")>>

\* a faulty PipeNode.wait that waits for the second half first
PipeNode_wait_steps_swapped ==
    <<CallStep("second", "wait"), CallStep("first", "wait")>>

\* PipeNode.wait
PipeNode_wait_steps == <<CallStep("first", "wait"), CallStep("second", "wait")>>

\* RedirectionsNode.execute: with self.redirections: self.base.execute(...)
RedirectionsNode_execute_steps ==
    <<OpStep("redirections.enter"), CallStep("base", "execute"),
      OpStep("redirections.exit")>>

\* RedirectionsNode.wait
RedirectionsNode_wait_steps == <<CallStep("base", "wait")>>

Steps(fn) ==
    CASE fn = "Shell.run" -> Shell_run_steps
      [] fn = "Shell.execute" -> Shell_execute_steps
      [] fn = "CommandNode.execute" -> CommandNode_execute_steps
      [] fn = "CommandNode.wait" -> CommandNode_wait_steps
      [] fn = "MultiNode.execute" -> MultiNode_execute_steps
      [] fn = "Node.wait" -> Node_wait_steps
      [] fn = "PipeNode.execute" -> PipeNode_execute_steps
      [] fn = "PipeNode.wait" -> PipeNode_wait_steps
      [] fn = "RedirectionsNode.execute" -> RedirectionsNode_execute_steps
      [] fn = "RedirectionsNode.wait" -> RedirectionsNode_wait_steps

\* the method that a call of execute or wait on a node runs
MethodOf(node, method) ==
    IF method = "execute" THEN node.type \o "Node.execute"
    ELSE IF node.type = "Multi" THEN "Node.wait"
    ELSE node.type \o "Node.wait"

\* Hooks(): the two lists of callbacks; a fork callback is the heap index of
\* the Redirection whose close() it calls
NoHooks == [execute |-> <<>>, fork |-> <<>>]

\* Hooks(base, fork=lambda: inp.close())
Hooks(base, inp) == [execute |-> base.execute, fork |-> Append(base.fork, inp)]

Frame(fn, node, hooks) ==
    [fn |-> fn, node |-> node, pc |-> 1, hooks |-> hooks,
     inp |-> 0, outp |-> 0,         \* PipeNode.execute: the heap indices of inp, outp
     estack |-> <<>>,               \* Redirections.stack: the redirections entered
     pending |-> "none",            \* Shell.execute: the exception the finally re-raises
     command |-> <<>>, argv |-> <<>>] \* CommandNode.execute: command, args

Top(stack) == stack[Len(stack)]
Pop(stack) == SubSeq(stack, 1, Len(stack) - 1)
SetTop(stack, fr) == [stack EXCEPT ![Len(stack)] = fr]
Advance(stack) == SetTop(stack, [Top(stack) EXCEPT !.pc = @ + 1])

\* the top frame returns: its caller goes on to its next step (Shell.run loops)
ReturnTo(stack) ==
    LET s == Pop(stack)
    IN  IF s = <<>> \/ Top(s).fn = "Shell.run" THEN s ELSE Advance(s)

\* the step a frame is at
StepOf(fr) ==
    IF fr.pc <= Len(Steps(fr.fn)) THEN Steps(fr.fn)[fr.pc] ELSE OpStep("return")

\* the fd table of a new shell: stdin, stdout, stderr
StdFds == [k \in 0..2 |-> <<"tty", k>>]

NoFds == [k \in {} |-> <<"tty", 0>>]

Root == <<"/">>

\* the shell process as main() starts it
NewShell ==
    [st |-> "shell",        \* "shell": runs this program; "image": runs an exec'd
                            \* program; "zombie": has exited
     ppid |-> -1, fds |-> StdFds, cwd |-> Root,
     stack |-> <<Frame("Shell.run", NoNode, NoHooks)>>,
     exc |-> "none",        \* the exception being propagated
     heap |-> <<>>,         \* the Redirection objects
     pid |-> <<>>,          \* CommandNode.pid by command id; 0 is None
     root |-> NoNode, line |-> <<>>,
     before |-> StdFds,     \* the fd table when the current line was read
     outcome |-> "none",    \* how Shell.execute ended for the current line
     log |-> <<>>,          \* what the process has done for the current line
     exit |-> "none",       \* why the process ended
     exitarg |-> <<>>]      \* the argument of sys.exit

\* the process ends: all its fds are closed
Death(P, cause) ==
    [P EXCEPT !.st = "zombie", !.exit = cause, !.fds = NoFds, !.stack = <<>>,
              !.exc = "none"]

Logged(P, event) == [P EXCEPT !.log = Append(@, event)]

\* raise exception e while running command (or parsing: 0) c
Raise(P, e, c) == [Logged(P, <<"raise", e, c>>) EXCEPT !.exc = e]

Running(p) ==
    /\ p \in DOMAIN procs
    /\ procs[p].st = "shell"
    /\ procs[p].stack # <<>>

\* process p is about to run a step named op
At(p, op) ==
    /\ Running(p)
    /\ procs[p].exc = "none"
    /\ StepOf(Top(procs[p].stack)).op = op

(***************************************************************************)
(* The lines the input holds.                                              *)
(***************************************************************************)
Lines == {
    <<"a">>,   \* a
    <<"a", "|", "c">>,   \* a|c
    <<"a", ">", "f", "<", "m">>,   \* a>f<m
    <<"n", ";", "a">>,   \* n;a
    <<"a", "|", "n", ";", "c">>,   \* a|n;c
    <<"a", " ", "$", "H", "O", "M", "E">>,   \* a $HOME
    <<"'", "a">>,   \* 'a
    <<"c", "d">>,   \* cd
    <<"a", ">", "f">>,   \* a>f
    <<"a", "<", "f">>,   \* a<f
    <<"a", ";", "c">>,   \* a;c
    <<"a", "|", "n">>,   \* a|n
    <<"a", " ", "$", "x">>,   \* a $x
    <<"a", "|", "d">>,   \* a|d
    <<"d">>,   \* d
    <<"m", "*">>,   \* m*
    <<"a", "|", "c", "|", "a">>,   \* a|c|a
    <<"a", "|", "c", ";", "a">>,   \* a|c;a
    <<"e", "x", "i", "t">>,   \* exit
    <<"e", "x", "i", "t", " ", "3">>,   \* exit 3
    <<"p", "w", "d">>,   \* pwd
    <<"p", "w", "d", ">", "f">>,   \* pwd>f
    <<"c", "d", " ", "b">>,   \* cd b
    <<"a", "|">>,   \* a|
    <<"a", ">", "f", "|", "c">>,   \* a>f|c
    <<"a", ">", ">", "f">>,   \* a>>f
    <<"a", ">", "f", "|">>,   \* a>f|
    <<"a", ">", "f", " ", "b">>,   \* a>f b
    <<"/", "b", "/", "a">>,   \* /b/a
    <<".", "/", "a">>,   \* ./a
    <<".", "/", "f">>,   \* ./f
    <<"/", "c">>,   \* /c
    <<"d", "|", "a">>,   \* d|a
    <<"a", ">", "f", ">", "g">>,   \* a>f>g
    <<"a", ">", "g", "<", "f">>   \* a>g<f
}

\* the lines that follow the first line of the input
LaterLines == {<<"a">>}

\* Shell.run, lines 61-64: readline has returned raw; self.execute(line)
Shell_run_execute(P, raw) ==
    [P EXCEPT !.line = raw, !.before = P.fds, !.log = <<>>,
              !.outcome = "running", !.root = NoNode,
              !.stack = Append(P.stack, Frame("Shell.execute", NoNode, NoHooks))]

\* Shell.run and Shell.readline: a line is read and Shell.execute is called
Shell_readline(p) ==
    /\ At(p, "readline")
    /\ nread < MaxLines
    /\ \E raw \in (IF nread = 0 THEN Lines ELSE LaterLines) :
        procs' = [procs EXCEPT ![p] = Shell_run_execute(procs[p], raw)]
    /\ nread' = nread + 1
    /\ UNCHANGED <<npid, npipe, nfile, created>>
    /\ UNCHANGED lexvars

\* Shell.run: readline returns None (end of input): break, and main returns
Shell_eof(p) ==
    /\ At(p, "readline")
    /\ procs' = [procs EXCEPT ![p] = Death(procs[p], "EOF")]
    /\ UNCHANGED <<npid, npipe, nfile, nread, created>>
    /\ UNCHANGED lexvars

\* the exceptions Shell.execute has an except clause for (lines 101, 109-116)
CaughtByExecute ==
    {"CommandNotFoundError", "FileNotFoundError", "IsADirectoryError",
     "PermissionError"}

\* Shell.execute, lines 96-106: Tokenizer, Parser, parser.parse() in the try
Shell_parse(p) ==
    /\ At(p, "parse")
    /\ \E r \in {parse(Parser(procs[p].line, procs[p].fds, <<>>))} :
       LET P == procs[p]
           Q == [P EXCEPT !.fds = r.ps.fds, !.heap = r.ps.heap]
       IN  procs' = [procs EXCEPT ![p] =
             IF r.ps.err = "ParseError"
             THEN [Logged(Q, <<"error", "ParseError">>) EXCEPT
                       !.outcome = "parse error", !.stack = ReturnTo(Q.stack)]
             ELSE IF r.ps.err # "none" THEN Raise(Q, r.ps.err, 0)
             ELSE IF r.node = NoNode
             THEN [Q EXCEPT !.outcome = "returned", !.stack = ReturnTo(Q.stack)]
             ELSE [Q EXCEPT !.root = r.node, !.pid = [i \in 1..r.ps.ncmd |-> 0],
                            !.stack = Advance(Q.stack)]]
    /\ UNCHANGED <<npid, npipe, nfile, nread, created>>
    /\ UNCHANGED lexvars

\* Shell.execute, lines 109-117: an exception of root.execute reaches the try;
\* an except clause handles it or it stays pending; then the finally clause
Shell_execute_except(p) ==
    /\ Running(p)
    /\ procs[p].exc # "none"
    /\ Top(procs[p].stack).fn = "Shell.execute"
    /\ StepOf(Top(procs[p].stack)) = CallStep("root", "execute")
    /\ LET P == procs[p]
           caught == P.exc \in CaughtByExecute
           Q == IF caught THEN Logged(P, <<"error", P.exc>>) ELSE P
       IN  procs' = [procs EXCEPT ![p] =
             [Q EXCEPT !.exc = "none",
                       !.stack = Advance(SetTop(P.stack,
                           [Top(P.stack) EXCEPT
                               !.pending = IF caught THEN "none" ELSE P.exc]))]]
    /\ UNCHANGED <<npid, npipe, nfile, nread, created>>
    /\ UNCHANGED lexvars

\* a call of execute or wait on a child node
Call(p) ==
    /\ At(p, "call")
    /\ LET P == procs[p]
           fr == Top(P.stack)
           step == StepOf(fr)
           node == IF step.target = "root" THEN P.root ELSE fr.node[step.target]
           hooks == IF step.method = "wait" \/ fr.fn = "Shell.execute" THEN NoHooks
                    ELSE IF fr.fn = "PipeNode.execute" /\ step.target = "first"
                    THEN Hooks(fr.hooks, fr.inp)
                    ELSE fr.hooks
       IN  procs' = [procs EXCEPT ![p] =
             [P EXCEPT !.stack = Append(P.stack,
                                   Frame(MethodOf(node, step.method), node, hooks))]]
    /\ UNCHANGED <<npid, npipe, nfile, nread, created>>
    /\ UNCHANGED lexvars

\* a method returns; Shell.execute re-raises what its finally clause held back
Return(p) ==
    /\ At(p, "return")
    /\ LET P == procs[p]
           fr == Top(P.stack)
       IN  procs' = [procs EXCEPT ![p] =
             IF fr.fn = "Shell.execute"
             THEN IF fr.pending # "none"
                  THEN [P EXCEPT !.exc = fr.pending, !.outcome = "raised",
                                 !.stack = Pop(P.stack)]
                  ELSE [P EXCEPT !.outcome = "returned",
                                 !.stack = ReturnTo(P.stack)]
             ELSE [P EXCEPT !.stack = ReturnTo(P.stack)]]
    /\ UNCHANGED <<npid, npipe, nfile, nread, created>>
    /\ UNCHANGED lexvars

(***************************************************************************)
(* Redirection and Redirections.  The operators take the process record P  *)
(* and the counters, and give the new ones with the exception raised.      *)
(***************************************************************************)
\* Redirection.open: os.open(self.filename, self.mode, self.permissions)
Redirection_open(P, idx, nf, cr) ==
    LET o    == P.heap[idx]
        path == AbsPath(P.cwd, o.filename)
        here == path \in SeqToSet(AllPaths(cr))
        err  == IF o.mode = "O_RDONLY"
                THEN IF here THEN "none" ELSE "FileNotFoundError"
                ELSE IF path \in SeqToSet(Dirs) THEN "IsADirectoryError" ELSE "none"
        fd   == LowestFree(P.fds)
    IN  IF err # "none" THEN [P |-> P, nfile |-> nf, created |-> cr, err |-> err]
        ELSE [P |-> [Logged(P, <<"open", idx, path>>) EXCEPT
                        !.fds = SetFd(P.fds, fd, <<"file", nf + 1>>),
                        !.heap[idx].newfd = fd],
              nfile |-> nf + 1,
              created |-> IF here THEN cr ELSE Append(cr, path),
              err |-> "none"]

\* os.dup2(fd, fd2) on fd table f
dup2(f, fd, fd2) == SetFd(f, fd2, f[fd])

\* Redirection.__enter__
Redirection_enter(P, idx, nf, cr) ==
    Bind(IF P.heap[idx].newfd = -1 THEN Redirection_open(P, idx, nf, cr)
         ELSE [P |-> P, nfile |-> nf, created |-> cr, err |-> "none"],
         LAMBDA o :
           LET r == o.P.heap[idx]
           IN  IF o.err # "none" THEN o
               ELSE IF r.newfd \notin DOMAIN o.P.fds
               THEN [o EXCEPT !.err = "OSError"]
               ELSE [o EXCEPT !.P =
                        [Logged(o.P, <<"enter", idx, o.P.fds[r.fd]>>) EXCEPT
                            !.fds = dup2(o.P.fds, r.newfd, r.fd)]])

\* Redirection.__exit__
Redirection_exit(P, idx) ==
    LET r == P.heap[idx]
    IN  [Logged(P, <<"exit", idx, P.fds[r.backup]>>) EXCEPT
            !.fds = dup2(P.fds, r.backup, r.fd)]

\* Redirections.__enter__: stack.enter_context(redirection) for each in order;
\* S holds the process, the counters, the exception and the ExitStack so far
RECURSIVE Redirections_enter(_, _)
Redirections_enter(S, idxs) ==
    IF idxs = <<>> \/ S.err # "none" THEN S
    ELSE Bind(Redirection_enter(S.P, Head(idxs), S.nfile, S.created), LAMBDA r :
             Redirections_enter(
                [P |-> r.P, nfile |-> r.nfile, created |-> r.created, err |-> r.err,
                 estack |-> IF r.err = "none" THEN Append(S.estack, Head(idxs))
                            ELSE S.estack],
                Tail(idxs)))

\* a faulty __exit__ that exits the entered ones first entered, first exited
RECURSIVE Redirections_exit_fifo(_, _)
Redirections_exit_fifo(P, estack) ==
    IF estack = <<>> THEN P
    ELSE Redirections_exit_fifo(Redirection_exit(P, Head(estack)), Tail(estack))

\* Redirections.__exit__: self.stack.close() exits the entered ones, last first
RECURSIVE Redirections_exit(_, _)
Redirections_exit(P, estack) ==
    IF estack = <<>> THEN P
    ELSE Redirections_exit(Redirection_exit(P, estack[Len(estack)]),
                           SubSeq(estack, 1, Len(estack) - 1))

\* the command a RedirectionsNode or CommandNode runs
CommandId(node) == IF node.type = "Redirections" THEN node.base.id ELSE node.id

\* the __exit__ that a with statement of frame fr runs when an exception
\* leaves its body
WithExit(P, fr) ==
    LET step == StepOf(fr)
    IN  IF fr.fn = "PipeNode.execute" /\ step = CallStep("first", "execute")
        THEN Redirection_exit(P, fr.outp)
        ELSE IF fr.fn = "PipeNode.execute" /\ step = CallStep("second", "execute")
        THEN Redirection_exit(P, fr.inp)
        ELSE IF fr.fn = "RedirectionsNode.execute" /\ step = CallStep("base", "execute")
        THEN Redirections_exit(P, fr.estack)
        ELSE P

(***************************************************************************)
(* Built-ins                                                               *)
(***************************************************************************)
builtins == {<<"e", "x", "i", "t">>, <<"p", "w", "d">>, <<"c", "d">>}

\* Shell._builtin_exit(name, n=0): sys.exit(n); n is the int 0 or the word
builtin_exit(P, c, argv) ==
    IF Len(argv) > 2 THEN Raise(P, "TypeError", c)
    ELSE [Raise(P, "SystemExit", c) EXCEPT
            !.exitarg = IF Len(argv) = 1 THEN [int |-> TRUE, str |-> <<>>]
                        ELSE [int |-> FALSE, str |-> argv[2]]]

\* the exit status that sys.exit(n) gives the process: the int n itself (here
\* only the default 0); for a str, the str is printed and the status is 1
sys_exit_status(exitarg) == IF exitarg.int THEN 0 ELSE 1

\* Shell._builtin_pwd(name): print(os.getcwd())
builtin_pwd(P, c, argv) ==
    IF Len(argv) # 1 THEN Raise(P, "TypeError", c)
    ELSE Logged(P, <<"write", P.fds[1], P.cwd>>)

\* Shell._builtin_cd(name, d): os.chdir(d)
builtin_cd(P, c, argv, fs) ==
    IF Len(argv) # 2 THEN Raise(P, "TypeError", c)
    ELSE LET d == AbsPath(P.cwd, argv[2])
         IN  IF d \in SeqToSet(Dirs) THEN [P EXCEPT !.cwd = d]
             ELSE IF d \in SeqToSet(AllPaths(fs)) THEN Raise(P, "NotADirectoryError", c)
             ELSE Raise(P, "FileNotFoundError", c)

\* builtins[command](*args)
RunBuiltin(P, c, argv, fs) ==
    IF argv[1] = <<"e", "x", "i", "t">> THEN builtin_exit(P, c, argv)
    ELSE IF argv[1] = <<"p", "w", "d">> THEN builtin_pwd(P, c, argv)
    ELSE builtin_cd(P, c, argv, fs)

(***************************************************************************)
(* CommandNode                                                             *)
(***************************************************************************)
\* CommandNode.execute up to the dispatch (lines 436-449): what happens, with
\* the argv built and the command looked up
Dispatch(P, node, fs) ==
    Bind(build_argv(P.cwd, fs, node.args, environ), LAMBDA b :
        IF b.err # "none" THEN [kind |-> "raise", err |-> b.err, argv |-> <<>>,
                                command |-> <<>>]
        ELSE IF b.value = <<>>
        THEN [kind |-> "raise", err |-> "IndexError", argv |-> <<>>, command |-> <<>>]
        ELSE IF b.value[1] \in builtins
        THEN [kind |-> "builtin", err |-> "none", argv |-> b.value,
              command |-> b.value[1]]
        ELSE Bind(lookup(P.cwd, fs, b.value[1],
                         split(environ[<<"P", "A", "T", "H">>], ":")),
                  LAMBDA l :
                    IF l.err # "none"
                    THEN [kind |-> "raise", err |-> l.err, argv |-> b.value,
                          command |-> b.value[1]]
                    ELSE [kind |-> "fork", err |-> "none", argv |-> b.value,
                          command |-> l.value]))

\* CommandNode.execute raises before dispatching
CommandNode_execute_raise(p) ==
    /\ At(p, "dispatch")
    /\ \E d \in {Dispatch(procs[p], Top(procs[p].stack).node, created)} :
       LET P == procs[p]
           node == Top(P.stack).node
       IN  /\ d.kind = "raise"
           /\ procs' = [procs EXCEPT ![p] =
                 Raise(Logged(P, <<"execute", node.id>>), d.err, node.id)]
    /\ UNCHANGED <<npid, npipe, nfile, nread, created>>
    /\ UNCHANGED lexvars

\* CommandNode.execute runs a built-in in the process itself (lines 445-447)
CommandNode_execute_builtin(p) ==
    /\ At(p, "dispatch")
    /\ \E d \in {Dispatch(procs[p], Top(procs[p].stack).node, created)} :
       /\ d.kind = "builtin"
       /\ LET P == procs[p]
              node == Top(P.stack).node
          IN  \E Q \in {RunBuiltin(Logged(Logged(P, <<"execute", node.id>>),
                                          <<"builtin", node.id, d.argv>>),
                                   node.id, d.argv, created)} :
                procs' = [procs EXCEPT ![p] =
                    IF Q.exc # "none" THEN Q
                    ELSE [Q EXCEPT !.stack = ReturnTo(Q.stack)]]
    /\ UNCHANGED <<npid, npipe, nfile, nread, created>>
    /\ UNCHANGED lexvars

\* CommandNode.execute forks (lines 449-460): the child is a copy of the
\* process, in the pid == 0 branch; the parent records the pid and returns
CommandNode_execute_fork(p) ==
    /\ At(p, "dispatch")
    /\ \E d \in {Dispatch(procs[p], Top(procs[p].stack).node, created)} :
       LET P == procs[p]
           fr == Top(P.stack)
           node == fr.node
           pid == npid + 1
           E == Logged(P, <<"execute", node.id>>)
           child == [E EXCEPT
                       !.ppid = p,
                       !.stack = SetTop(P.stack,
                           [fr EXCEPT !.pc = 2, !.command = d.command,
                                      !.argv = d.argv])]
           parent == [Logged(E, <<"fork", node.id, pid, d.argv, d.command>>) EXCEPT
                       !.pid[node.id] = pid,
                       !.stack = ReturnTo(P.stack)]
       IN  /\ d.kind = "fork"
           /\ procs' = [q \in DOMAIN procs \cup {pid} |->
                           IF q = pid THEN child
                           ELSE IF q = p THEN parent ELSE procs[q]]
           /\ npid' = pid
    /\ UNCHANGED <<npipe, nfile, nread, created>>
    /\ UNCHANGED lexvars

\* os.close(fd) for each fd of a list, in order; "OSError" if one is not open
RECURSIVE close_all(_, _)
close_all(f, fdlist) ==
    IF fdlist = <<>> THEN [err |-> "none", fds |-> f]
    ELSE IF Head(fdlist) \notin DOMAIN f THEN [err |-> "OSError", fds |-> f]
    ELSE close_all(DelFd(f, Head(fdlist)), Tail(fdlist))

\* the child, lines 455-456: hooks.execute(command, args); hooks.fork()
Child_hooks(p) ==
    /\ At(p, "hooks")
    /\ \E c \in {close_all(procs[p].fds,
                    [i \in DOMAIN Top(procs[p].stack).hooks.fork |->
                        procs[p].heap[Top(procs[p].stack).hooks.fork[i]].newfd])} :
       LET P == procs[p]
           fr == Top(P.stack)
       IN  procs' = [procs EXCEPT ![p] =
             IF c.err # "none" THEN Raise([P EXCEPT !.fds = c.fds], c.err, fr.node.id)
             ELSE [P EXCEPT !.fds = c.fds, !.stack = Advance(P.stack)]]
    /\ UNCHANGED <<npid, npipe, nfile, nread, created>>
    /\ UNCHANGED lexvars

\* the child, line 457: os.execv(command, args) replaces the process image,
\* or raises PermissionError when the file is not an executable program
Child_execv(p) ==
    /\ At(p, "execv")
    /\ LET P == procs[p]
           fr == Top(P.stack)
       IN  procs' = [procs EXCEPT ![p] =
             IF AbsPath(P.cwd, fr.command) \in SeqToSet(Progs)
             THEN [P EXCEPT !.st = "image", !.stack = <<>>]
             ELSE Raise(P, "PermissionError", fr.node.id)]
    /\ UNCHANGED <<npid, npipe, nfile, nread, created>>
    /\ UNCHANGED lexvars

\* a program run by execv ends
Process_exit(p) ==
    /\ p \in DOMAIN procs
    /\ procs[p].st = "image"
    /\ procs' = [procs EXCEPT ![p] = Death(procs[p], "exited")]
    /\ UNCHANGED <<npid, npipe, nfile, nread, created>>
    /\ UNCHANGED lexvars

\* CommandNode.wait, line 463: if self.pid
CommandNode_wait(p) ==
    /\ At(p, "if self.pid")
    /\ LET P == Logged(procs[p], <<"wait", Top(procs[p].stack).node.id>>)
           node == Top(P.stack).node
       IN  procs' = [procs EXCEPT ![p] =
             IF P.pid[node.id] # 0 THEN [P EXCEPT !.stack = Advance(P.stack)]
             ELSE [P EXCEPT !.stack = ReturnTo(P.stack)]]
    /\ UNCHANGED <<npid, npipe, nfile, nread, created>>
    /\ UNCHANGED lexvars

\* CommandNode.wait, line 464: os.waitpid(self.pid, 0) returns once the child
\* has ended, and the child is reaped
CommandNode_waitpid(p) ==
    /\ At(p, "waitpid")
    /\ LET P == procs[p]
           pid == P.pid[Top(P.stack).node.id]
       IN  /\ pid \in DOMAIN procs
           /\ procs[pid].ppid = p
           /\ procs[pid].st = "zombie"
           /\ procs' = [q \in DOMAIN procs \ {pid} |->
                IF q = p
                THEN [Logged(P, <<"reap", pid>>) EXCEPT !.stack = ReturnTo(P.stack)]
                ELSE procs[q]]
    /\ UNCHANGED <<npid, npipe, nfile, nread, created>>
    /\ UNCHANGED lexvars

\* os.waitpid raises ChildProcessError: the pid is no child of this process
CommandNode_waitpid_raise(p) ==
    /\ At(p, "waitpid")
    /\ LET P == procs[p]
           node == Top(P.stack).node
           pid == P.pid[node.id]
       IN  /\ IF pid \in DOMAIN procs THEN procs[pid].ppid # p ELSE TRUE
           /\ procs' = [procs EXCEPT ![p] = Raise(P, "ChildProcessError", node.id)]
    /\ UNCHANGED <<npid, npipe, nfile, nread, created>>
    /\ UNCHANGED lexvars

(***************************************************************************)
(* PipeNode and RedirectionsNode                                           *)
(***************************************************************************)
\* PipeNode.execute, lines 588-590: os.pipe(), inp, outp
PipeNode_pipe(p) ==
    /\ At(p, "pipe")
    /\ LET P == procs[p]
           r == LowestFree(P.fds)
           f1 == SetFd(P.fds, r, <<"pr", npipe + 1>>)
           w == LowestFree(f1)
           f2 == SetFd(f1, w, <<"pw", npipe + 1>>)
           inp == Redirection_init_fd(f2, 0, r)
           outp == Redirection_init_fd(inp.fds, 1, w)
       IN  procs' = [procs EXCEPT ![p] =
             [P EXCEPT !.fds = outp.fds,
                       !.heap = P.heap \o <<inp.obj, outp.obj>>,
                       !.stack = Advance(SetTop(P.stack,
                           [Top(P.stack) EXCEPT !.inp = Len(P.heap) + 1,
                                                !.outp = Len(P.heap) + 2]))]]
    /\ npipe' = npipe + 1
    /\ UNCHANGED <<npid, nfile, nread, created>>
    /\ UNCHANGED lexvars

\* the Redirection a step of PipeNode.execute names
PipeRedir(fr, op) ==
    IF op \in {"outp.enter", "outp.exit", "outp.close"} THEN fr.outp ELSE fr.inp

\* PipeNode.execute: with outp: / with inp: is entered
PipeNode_enter(p) ==
    /\ At(p, "outp.enter") \/ At(p, "inp.enter")
    /\ \E r \in {Redirection_enter(procs[p],
                        PipeRedir(Top(procs[p].stack), StepOf(Top(procs[p].stack)).op),
                        nfile, created)} :
       LET P == procs[p]
       IN  procs' = [procs EXCEPT ![p] =
             IF r.err # "none" THEN Raise(r.P, r.err, 0)
             ELSE [r.P EXCEPT !.stack = Advance(P.stack)]]
    /\ UNCHANGED <<npid, npipe, nfile, nread, created>>
    /\ UNCHANGED lexvars

\* PipeNode.execute: the body of with outp: / with inp: has returned
PipeNode_exit(p) ==
    /\ At(p, "outp.exit") \/ At(p, "inp.exit")
    /\ LET P == procs[p]
           fr == Top(P.stack)
           Q == Redirection_exit(P, PipeRedir(fr, StepOf(fr).op))
       IN  procs' = [procs EXCEPT ![p] = [Q EXCEPT !.stack = Advance(P.stack)]]
    /\ UNCHANGED <<npid, npipe, nfile, nread, created>>
    /\ UNCHANGED lexvars

\* PipeNode.execute, line 595: outp.close(), which is os.close(self.newfd)
PipeNode_close(p) ==
    /\ At(p, "outp.close")
    /\ \E c \in {close_all(procs[p].fds,
                    <<procs[p].heap[Top(procs[p].stack).outp].newfd>>)} :
       LET P == procs[p]
           fr == Top(P.stack)
       IN  procs' = [procs EXCEPT ![p] =
             IF c.err # "none" THEN Raise(P, c.err, 0)
             ELSE [Logged(P, <<"close", fr.outp>>) EXCEPT
                      !.fds = c.fds, !.stack = Advance(P.stack)]]
    /\ UNCHANGED <<npid, npipe, nfile, nread, created>>
    /\ UNCHANGED lexvars

\* RedirectionsNode.execute: with self.redirections: is entered
RedirectionsNode_enter(p) ==
    /\ At(p, "redirections.enter")
    /\ \E r \in {Redirections_enter(
                    [P |-> procs[p], nfile |-> nfile, created |-> created,
                     err |-> "none", estack |-> <<>>],
                    Top(procs[p].stack).node.redirections)} :
       LET fr == Top(procs[p].stack)
           Q == [r.P EXCEPT !.stack = SetTop(r.P.stack,
                                         [fr EXCEPT !.estack = r.estack])]
       IN  /\ procs' = [procs EXCEPT ![p] =
                IF r.err # "none" THEN Raise(Q, r.err, CommandId(fr.node))
                ELSE [Q EXCEPT !.stack = Advance(Q.stack)]]
           /\ nfile' = r.nfile
           /\ created' = r.created
    /\ UNCHANGED <<npid, npipe, nread>>
    /\ UNCHANGED lexvars

\* RedirectionsNode.execute: the body of the with has returned
RedirectionsNode_exit(p) ==
    /\ At(p, "redirections.exit")
    /\ LET P == procs[p]
           fr == Top(P.stack)
           Q == Redirections_exit(P, fr.estack)
       IN  procs' = [procs EXCEPT ![p] =
             [Q EXCEPT !.stack = Advance(SetTop(P.stack,
                                     [fr EXCEPT !.estack = <<>>]))]]
    /\ UNCHANGED <<npid, npipe, nfile, nread, created>>
    /\ UNCHANGED lexvars

(***************************************************************************)
(* Exceptions                                                              *)
(***************************************************************************)
\* the frame on top handles the exception itself (the try of Shell.execute)
Handles(fr) ==
    fr.fn = "Shell.execute" /\ StepOf(fr) = CallStep("root", "execute")

\* a faulty unwinding in which MultiNode.execute swallows what its first half
\* raises and goes on
Unwind_swallow(Q) ==
    IF Top(Q.stack).fn = "MultiNode.execute"
       /\ StepOf(Top(Q.stack)) = CallStep("first", "execute")
    THEN [Q EXCEPT !.exc = "none", !.stack = Advance(Q.stack)]
    ELSE [Q EXCEPT !.stack = Pop(Q.stack)]

\* the execute and wait methods of the nodes have no except clause: the
\* exception leaves the frame on top, which is dropped
Unwind(Q) == [Q EXCEPT !.stack = Pop(Q.stack)]

\* an exception leaves the top frame, through the with statement it is in;
\* leaving Shell.run it ends the process
Propagate(p) ==
    /\ Running(p)
    /\ procs[p].exc # "none"
    /\ ~Handles(Top(procs[p].stack))
    /\ LET P == procs[p]
           fr == Top(P.stack)
           Q == WithExit(P, fr)
       IN  procs' = [procs EXCEPT ![p] =
             IF fr.fn = "Shell.run" THEN Death(P, P.exc)
             ELSE IF fr.fn = "Shell.execute"
             THEN [Q EXCEPT !.outcome = "raised", !.stack = Pop(P.stack)]
             ELSE Unwind(Q)]
    /\ UNCHANGED <<npid, npipe, nfile, nread, created>>
    /\ UNCHANGED lexvars

(***************************************************************************)
(* The shell and its children.                                             *)
(***************************************************************************)
Init ==
    /\ procs = (0 :> NewShell)
    /\ npid = 0
    /\ npipe = 0
    /\ nfile = 0
    /\ nread = 0
    /\ created = <<>>
    /\ tokenizer = Tokenizer(<<>>)
    /\ yielded = <<>>
    /\ iterst = "active"

\* the pids a step may be taken by or may create
Pids == 0..(npid + 1)

\* the steps of the code of the shell, in the shell and in its children
ShellSteps ==
    \/ \E p \in Pids : Shell_readline(p)
    \/ \E p \in Pids : Shell_eof(p)
    \/ \E p \in Pids : Shell_parse(p)
    \/ \E p \in Pids : Shell_execute_except(p)
    \/ \E p \in Pids : Call(p)
    \/ \E p \in Pids : Return(p)
    \/ \E p \in Pids : CommandNode_execute_raise(p)
    \/ \E p \in Pids : CommandNode_execute_builtin(p)
    \/ \E p \in Pids : CommandNode_execute_fork(p)
    \/ \E p \in Pids : Child_hooks(p)
    \/ \E p \in Pids : Child_execv(p)
    \/ \E p \in Pids : CommandNode_wait(p)
    \/ \E p \in Pids : CommandNode_waitpid(p)
    \/ \E p \in Pids : CommandNode_waitpid_raise(p)
    \/ \E p \in Pids : PipeNode_pipe(p)
    \/ \E p \in Pids : PipeNode_enter(p)
    \/ \E p \in Pids : PipeNode_exit(p)
    \/ \E p \in Pids : PipeNode_close(p)
    \/ \E p \in Pids : RedirectionsNode_enter(p)
    \/ \E p \in Pids : RedirectionsNode_exit(p)
    \/ \E p \in Pids : Propagate(p)

\* the programs that os.execv runs end at any time
Next ==
    \/ ShellSteps
    \/ \E p \in Pids : Process_exit(p)

Spec == Init /\ [][Next]_vars

(***************************************************************************)
(* Properties of the execution of a line.  They read the log of a process: *)
(* what it has done since it read its current line.                        *)
(***************************************************************************)
\* the process main() started, as opposed to the children it forked
IsShell(p) == procs[p].ppid = -1

\* the ids of the commands in a tree
RECURSIVE Cmds(_)
Cmds(node) ==
    IF node.type = "Command" THEN {node.id}
    ELSE IF node.type = "Redirections" THEN Cmds(node.base)
    ELSE IF node.type \in {"Multi", "Pipe"}
    THEN Cmds(node.first) \cup Cmds(node.second)
    ELSE {}

\* the nodes of a tree
RECURSIVE Nodes(_)
Nodes(node) ==
    IF node.type = "Redirections" THEN {node} \cup Nodes(node.base)
    ELSE IF node.type \in {"Multi", "Pipe"}
    THEN {node} \cup Nodes(node.first) \cup Nodes(node.second)
    ELSE IF node.type = "Command" THEN {node}
    ELSE {}

NodesOfType(node, type) == {n \in Nodes(node) : n.type = type}

\* the positions of the events of one kind in a log
EventsOf(log, kind) == {k \in DOMAIN log : log[k][1] = kind}

\* the positions where a command is started: forked, or run as a built-in
Starts(log) == EventsOf(log, "fork") \cup EventsOf(log, "builtin")

\* Shell.execute has ended for the current line of the live process P
ExecuteDone(P) == P.st = "shell" /\ P.outcome \in {"returned", "raised"}

\* C1 as stated: for every line whose execution enters a redirection scope,
\* once Shell.execute has returned, normally or with an error, fd 0 and fd 1
\* of the shell refer to the open file descriptions they referred to before
\* the line, and every redirection entered has been exited exactly once.
C1_Restoration ==
    \A p \in DOMAIN procs :
        LET P == procs[p]
        IN  (IsShell(p) /\ ExecuteDone(P) /\ EventsOf(P.log, "enter") # {}) =>
              /\ P.fds[0] = P.before[0]
              /\ P.fds[1] = P.before[1]
              /\ \A k \in EventsOf(P.log, "enter") :
                    Cardinality({j \in EventsOf(P.log, "exit") :
                                    P.log[j][2] = P.log[k][2]}) = 1

\* C2 as stated: for every pipeline line whose children have all terminated,
\* the fds open in the shell after Shell.execute returns are those that were
\* open before the line was parsed.
C2_NoFdLeak ==
    \A p \in DOMAIN procs :
        LET P == procs[p]
        IN  (/\ IsShell(p)
             /\ P.st = "shell"
             /\ P.outcome = "returned"
             /\ P.root.type = "Pipe"
             /\ \A q \in DOMAIN procs : procs[q].ppid = p => procs[q].st = "zombie")
            => DOMAIN P.fds = DOMAIN P.before

\* C3 as stated: every error raised while executing a parsed line is caught
\* inside Shell.execute, which returns normally; only the exit built-in or
\* the end of the input ends the read loop of the shell.
C3_ErrorsCaught ==
    \A p \in DOMAIN procs :
        LET P == procs[p]
        IN  (IsShell(p) /\ P.root # NoNode) =>
              /\ P.outcome = "raised" =>
                    \E k \in EventsOf(P.log, "raise") : P.log[k][2] = "SystemExit"
              /\ P.st = "zombie" => P.exit \in {"EOF", "SystemExit"}

\* lexing the rest of the line from tokenizer t reaches a quoted word that
\* the end of the line cuts short
RECURSIVE LexRaises(_)
LexRaises(t) ==
    Bind(token(t), LAMBDA r :
        r.raised \/ (r.tok.ttype # "EOF" /\ LexRaises(r.t)))

\* C4 as stated: a line with an unterminated quoted word anywhere in it is
\* reported by Shell.execute as a parse error: nothing is executed and
\* Shell.execute returns normally.
C4_OpenQuoteIsParseError ==
    \A p \in DOMAIN procs :
        LET P == procs[p]
        IN  (/\ IsShell(p)
             /\ P.outcome \notin {"none", "running"}
             /\ LexRaises(Tokenizer(P.line)))
            => /\ P.outcome = "parse error"
               /\ EventsOf(P.log, "execute") = {}

\* C5 as stated: when Shell.execute returns for a line, every child forked
\* while executing the line has been waited on and reaped.
C5_ChildrenReaped ==
    \A p \in DOMAIN procs :
        LET P == procs[p]
        IN  (IsShell(p) /\ P.st = "shell" /\ P.outcome = "returned") =>
              \A k \in EventsOf(P.log, "fork") :
                  \E j \in EventsOf(P.log, "reap") :
                      j > k /\ P.log[j][2] = P.log[k][3]

\* the argv that variable expansion followed by wildcard expansion gives
ExpandedArgv(cwd, fs, words) ==
    flatten([i \in DOMAIN words |->
                glob(cwd, fs, expandvars(words[i], environ).value)])

\* the argv of a start event
ArgvOf(ev) == IF ev[1] = "fork" THEN ev[4] ELSE ev[3]

\* the events a step adds to the log of process p
Added(p) ==
    IF p \in DOMAIN procs' /\ Len(procs'[p].log) > Len(procs[p].log)
    THEN {procs'[p].log[k] : k \in (Len(procs[p].log) + 1)..Len(procs'[p].log)}
    ELSE {}

\* C6 as stated: the argv handed to a built-in or to exec is, word by word,
\* the result of variable expansion followed by wildcard expansion of the
\* expanded word.
C6_ArgvIsExpanded ==
    [][\A p \in DOMAIN procs :
         \A ev \in Added(p) :
            ev[1] \in {"fork", "builtin"} =>
               ArgvOf(ev) = ExpandedArgv(procs[p].cwd, created,
                                         Top(procs[p].stack).node.args)]_vars

\* the PATH list that CommandNode.execute hands to lookup
PathList == split(environ[<<"P", "A", "T", "H">>], ":")

\* the positions of the PATH entries under which the name exists
PathHits(cwd, fs, name) ==
    {i \in DOMAIN PathList : exists(cwd, fs, path_join(PathList[i], name))}

\* the name is used as it is: it begins with "/" or "./" and exists
Verbatim(cwd, fs, name) ==
    /\ startswith(name, <<"/">>) \/ startswith(name, <<".", "/">>)
    /\ exists(cwd, fs, name)

\* the path that the claim gives for a name that resolves
Resolved(cwd, fs, name) ==
    IF Verbatim(cwd, fs, name) THEN name
    ELSE LET first == CHOOSE i \in PathHits(cwd, fs, name) :
                         \A j \in PathHits(cwd, fs, name) : i <= j
         IN  path_join(PathList[first], name)

DigitValue(c) ==
    CASE c = "0" -> 0 [] c = "1" -> 1 [] c = "2" -> 2 [] c = "3" -> 3
      [] c = "4" -> 4 [] c = "5" -> 5 [] c = "6" -> 6 [] c = "7" -> 7
      [] c = "8" -> 8 [] c = "9" -> 9

RECURSIVE NumericValue(_)
NumericValue(word) ==
    IF word = <<>> THEN 0
    ELSE 10 * NumericValue(SubSeq(word, 1, Len(word) - 1))
         + DigitValue(word[Len(word)])

\* C19 as stated: the exit built-in ends the shell process with status n
\* when invoked as "exit n", n being the numeric value of the argument word,
\* and with status 0 when invoked without an argument.
C19_ExitStatusIsArgument ==
    \A p \in DOMAIN procs :
        LET P == procs[p]
        IN  (P.st = "zombie" /\ P.exit = "SystemExit") =>
              \E k \in EventsOf(P.log, "builtin") :
                 LET argv == P.log[k][3]
                 IN  /\ argv[1] = <<"e", "x", "i", "t">>
                     /\ sys_exit_status(P.exitarg)
                           = IF Len(argv) = 1 THEN 0 ELSE NumericValue(argv[2])

\* the processes that have the open file description at one of their fds
Holders(desc) ==
    {q \in DOMAIN procs : \E k \in DOMAIN procs[q].fds : procs[q].fds[k] = desc}

\* process q runs the program of the right side of a pipe: its standard
\* input is the read end of the pipe
RunsRightSide(q) ==
    /\ procs[q].st = "image"
    /\ 0 \in DOMAIN procs[q].fds
    /\ procs[q].fds[0][1] = "pr"

\* C20 as stated: while the right side of a pipe is running, exactly one
\* process, the right child, holds the read end of the pipe open: not the
\* shell, not the left child, not any other child of the line.
C20_OnlyRightChildHoldsReadEnd ==
    \A q \in DOMAIN procs :
        RunsRightSide(q) => Holders(procs[q].fds[0]) = {q}

\* the write end of the pipe whose read end is the given description
WriteEndOf(desc) == <<"pw", desc[2]>>

\* C21 as stated: once the right side of a pipe has been started, the
\* process that started it has closed the write end, the right child has
\* not inherited it, and at most one process (the left child) holds it.
C21_OnlyLeftChildHoldsWriteEnd ==
    \A q \in DOMAIN procs :
        RunsRightSide(q) =>
            LET w == WriteEndOf(procs[q].fds[0])
            IN  /\ q \notin Holders(w)
                /\ procs[q].ppid \notin Holders(w)
                /\ Cardinality(Holders(w)) <= 1

\* the process is in the child branch of CommandNode.execute: at the hooks
\* or at os.execv, or an exception has just been raised there
InChildBranch(P) ==
    /\ P.stack # <<>>
    /\ Top(P.stack).fn = "CommandNode.execute"
    /\ StepOf(Top(P.stack)).op \in {"hooks", "execv"}

\* C22 as stated: a forked child never returns from CommandNode.execute
\* into the code of the shell: as long as it runs this program it is in the
\* child branch, and it ends as a new program image or by terminating there,
\* also when a hook or os.execv fails.  Only the original shell process runs
\* the read-parse-execute loop.
C22_ChildNeverReturns ==
    \A q \in DOMAIN procs :
        ~IsShell(q) =>
            /\ procs[q].st = "shell" => InChildBranch(procs[q])
            /\ procs[q].st = "zombie" => procs[q].exit # "EOF"

\* a caller that uses the contract of wait: when Shell.execute has waited for
\* the tree of the line (the finally clause, line 118), wait() is called on
\* the root once more
Node_wait_again(p) ==
    /\ At(p, "return")
    /\ Top(procs[p].stack).fn = "Shell.execute"
    /\ Top(procs[p].stack).pending = "none"
    /\ EventsOf(procs[p].log, "again") = {}
    /\ LET P == procs[p]
       IN  procs' = [procs EXCEPT ![p] =
             [Logged(P, <<"again">>) EXCEPT
                !.stack = Append(P.stack,
                             Frame(MethodOf(P.root, "wait"), P.root, NoHooks))]]
    /\ UNCHANGED <<npid, npipe, nfile, nread, created>>
    /\ UNCHANGED lexvars

NextWait ==
    \/ Next
    \/ \E p \in Pids : Node_wait_again(p)

\* the shell with a caller that waits for each tree a second time
SpecWait == Init /\ [][NextWait]_vars

\* C23 as stated: wait is idempotent.  A second wait() on a node, after the
\* first has reaped its children, succeeds and has no effect: nothing is
\* raised and nothing is reaped after it.  A wait() on a command whose
\* execute failed before forking has no effect either, and the pid of a
\* child is recorded before any wait for its command.
C23_WaitIsIdempotent ==
    \A p \in DOMAIN procs :
        LET log == procs[p].log
        IN  /\ \A k \in EventsOf(log, "again") :
                  \A j \in DOMAIN log :
                     j > k => log[j][1] \notin {"raise", "reap", "error"}
            /\ \A j \in EventsOf(log, "wait") :
                  (procs[p].st = "shell" /\ procs[p].pid[log[j][2]] = 0
                   /\ j < Len(log)) =>
                     log[j + 1][1] \notin {"raise", "reap"}
            /\ \A k \in EventsOf(log, "fork") :
                  \A j \in EventsOf(log, "wait") :
                     log[j][2] = log[k][2] => k < j

\* the heap indices of the events of one kind that name a redirection of the
\* list, in the order of the log
RECURSIVE ScopeEvents(_, _, _)
ScopeEvents(log, kind, idxs) ==
    IF log = <<>> THEN <<>>
    ELSE (IF Head(log)[1] = kind /\ Head(log)[2] \in SeqToSet(idxs)
          THEN <<Head(log)[2]>> ELSE <<>>)
         \o ScopeEvents(Tail(log), kind, idxs)

IsPrefix(s, t) == Len(s) <= Len(t) /\ s = SubSeq(t, 1, Len(s))

Reverse(s) == [i \in DOMAIN s |-> s[Len(s) + 1 - i]]

\* the process forked by the fork event runs the child branch or the program
InheritsAtFork(q) ==
    /\ q \in DOMAIN procs
    /\ procs[q].st = "image" \/ (procs[q].st = "shell" /\ InChildBranch(procs[q]))

\* C24: for a Redirections node with list r1..rn the scope entry applies r1,
\* then r2, ... then rn, each opening its file if that is pending and
\* duplicating it over its target fd, and the scope exit undoes them in the
\* order rn, ..., r1.  For an external command this happens in the shell
\* process, every application before the fork and every undo after it, and
\* the child inherits the redirected fds.
C24_RedirectionsLIFO ==
    \A p \in DOMAIN procs :
        IsShell(p) =>
          \A N \in NodesOfType(procs[p].root, "Redirections") :
            LET log == procs[p].log
                heap == procs[p].heap
                L == N.redirections
                entered == ScopeEvents(log, "enter", L)
                exited == ScopeEvents(log, "exit", L)
            IN  /\ IsPrefix(entered, L)
                /\ IsPrefix(exited, Reverse(entered))
                /\ \A k \in EventsOf(log, "enter") :
                      (log[k][2] \in SeqToSet(L) /\ heap[log[k][2]].mode # "none") =>
                         /\ k > 1
                         /\ log[k - 1][1] = "open"
                         /\ log[k - 1][2] = log[k][2]
                /\ \A f \in EventsOf(log, "fork") :
                      log[f][2] = CommandId(N) =>
                         /\ entered = L
                         /\ \A k \in EventsOf(log, "enter") :
                               log[k][2] \in SeqToSet(L) => k < f
                         /\ \A k \in EventsOf(log, "exit") :
                               log[k][2] \in SeqToSet(L) => k > f
                         /\ InheritsAtFork(log[f][3]) =>
                               \A i \in DOMAIN L :
                                  (\A j \in DOMAIN L :
                                      j > i => heap[L[j]].fd # heap[L[i]].fd) =>
                                     procs[log[f][3]].fds[heap[L[i]].fd]
                                       = procs[log[f][3]].fds[heap[L[i]].newfd]

\* the shell has applied two redirections for an external command, forked
\* it, and undone both
C24_Witness ==
    \E p \in DOMAIN procs :
        /\ IsShell(p)
        /\ \E N \in NodesOfType(procs[p].root, "Redirections") :
              /\ Len(N.redirections) = 2
              /\ Len(ScopeEvents(procs[p].log, "exit", N.redirections)) = 2
              /\ \E f \in EventsOf(procs[p].log, "fork") :
                    procs[p].log[f][2] = CommandId(N)

\* C25 as stated: the backup fd that the constructor of a Redirection
\* acquires is released by the time the scope of that Redirection has been
\* exited, and once a line has been handled no backup fd of its file
\* redirections is open in the shell process.
C25_BackupsReleased ==
    \A p \in DOMAIN procs :
        LET P == procs[p]
        IN  (IsShell(p) /\ P.st = "shell") =>
              /\ \A k \in EventsOf(P.log, "exit") :
                    P.heap[P.log[k][2]].backup \notin DOMAIN P.fds
              /\ ExecuteDone(P) =>
                    \A idx \in DOMAIN P.heap :
                       P.heap[idx].mode # "none" =>
                          P.heap[idx].backup \notin DOMAIN P.fds

\* the entry that an exit at position k of the log undoes: the last entry of
\* the same Redirection before k (0 if there is none)
EntryOf(log, k) ==
    LET js == {j \in EventsOf(log, "enter") : j < k /\ log[j][2] = log[k][2]}
    IN  IF js = {} THEN 0 ELSE CHOOSE j \in js : \A i \in js : i <= j

\* C26 as stated: when the scope of a Redirection is exited, normally or
\* through an error, its target fd refers again to the open file description
\* it referred to immediately before the scope was entered, also when scopes
\* on the same fd are nested.
C26_ExitRestoresPriorState ==
    \A p \in DOMAIN procs :
        LET log == procs[p].log
        IN  \A k \in EventsOf(log, "exit") :
              EntryOf(log, k) # 0 => log[k][3] = log[EntryOf(log, k)][3]

(***************************************************************************)
(* Pipelines whose left program writes until a write fails.               *)
(***************************************************************************)
\* the standard output of process p is the write end of a pipe
WritesToPipe(p) ==
    /\ 1 \in DOMAIN procs[p].fds
    /\ procs[p].fds[1][1] = "pw"

\* the read end of the pipe that process p writes to
ReadEndOf(p) == <<"pr", procs[p].fds[1][2]>>

\* a program that os.execv runs ends.  A program whose standard output is a
\* pipe keeps writing: a write fails, and the program ends, only when no
\* process has the read end open; while some process has it open the writes
\* fill the pipe and then block.  Every other program may end at any time,
\* whatever it has read.
Process_exit_writer(p) ==
    /\ Process_exit(p)
    /\ WritesToPipe(p) => Holders(ReadEndOf(p)) = {}

NextPipe ==
    \/ ShellSteps
    \/ \E p \in Pids : Process_exit_writer(p)

SpecPipe == Init /\ [][NextPipe]_vars

\* the steps whose fairness is stated with WF
ScheduledSteps ==
    \/ \E p \in Pids : Shell_readline(p)
    \/ \E p \in Pids : Shell_eof(p)
    \/ \E p \in Pids : Shell_execute_except(p)
    \/ \E p \in Pids : Call(p)
    \/ \E p \in Pids : Return(p)
    \/ \E p \in Pids : CommandNode_execute_raise(p)
    \/ \E p \in Pids : CommandNode_execute_builtin(p)
    \/ \E p \in Pids : CommandNode_execute_fork(p)
    \/ \E p \in Pids : Child_hooks(p)
    \/ \E p \in Pids : Child_execv(p)
    \/ \E p \in Pids : CommandNode_wait(p)
    \/ \E p \in Pids : CommandNode_waitpid(p)
    \/ \E p \in Pids : CommandNode_waitpid_raise(p)
    \/ \E p \in Pids : PipeNode_enter(p)
    \/ \E p \in Pids : PipeNode_exit(p)
    \/ \E p \in Pids : PipeNode_close(p)
    \/ \E p \in Pids : RedirectionsNode_exit(p)
    \/ \E p \in Pids : Propagate(p)
    \/ \E p \in Pids : Process_exit_writer(p)

\* some process is at a step that is always possible where it stands: the
\* parsing of the line, os.pipe, or the entry of a Redirections scope
AtComputation ==
    \E p \in DOMAIN procs :
        At(p, "parse") \/ At(p, "pipe") \/ At(p, "redirections.enter")

\* every process that can take a step is scheduled.  For the three steps of
\* AtComputation, which are enabled exactly when a process stands at them,
\* weak fairness is stated through that position: no process stands there
\* for ever.
SpecPipeFair ==
    /\ SpecPipe
    /\ WF_vars(ScheduledSteps)
    /\ []<>~AtComputation

\* the shell (pid 0) is handling a line that is a pipeline L | R of two
\* external commands, and has forked both
PipelineRunning ==
    /\ procs[0].st = "shell"
    /\ procs[0].outcome = "running"
    /\ procs[0].root.type = "Pipe"
    /\ procs[0].root.first.type = "Command"
    /\ procs[0].root.second.type = "Command"
    /\ \E j, k \in EventsOf(procs[0].log, "fork") :
          /\ procs[0].log[j][2] = procs[0].root.first.id
          /\ procs[0].log[k][2] = procs[0].root.second.id

\* Shell.execute has ended for the line
LineHandled == procs[0].outcome # "running"

\* C27 as stated: for a pipeline L | R of external commands where R exits
\* after reading part of its input and L writes until a write fails for want
\* of a reader, the handling of the line eventually completes: L gets the
\* broken pipe after R exits, both children end and PipeNode.wait returns.
C27_PipelineCompletes == PipelineRunning ~> LineHandled

\* C7: within a Multi node no command of the right half is forked or run as
\* a built-in while a child forked for the left half is unreaped: in every
\* process, each start of a command of the right half comes after the reaping
\* of every child forked for the left half.
C7_MultiRightAfterLeftReaped ==
    \A p \in DOMAIN procs :
        LET log == procs[p].log
        IN  \A M \in NodesOfType(procs[p].root, "Multi") :
              \A k \in Starts(log) :
                log[k][2] \in Cmds(M.second) =>
                  \A j \in EventsOf(log, "fork") :
                    (j < k /\ log[j][2] \in Cmds(M.first)) =>
                       \E i \in EventsOf(log, "reap") :
                          j < i /\ i < k /\ log[i][2] = log[j][3]

\* the shell has forked and reaped the left half of a Multi node and then
\* forked its right half
C7_Witness ==
    \E p \in DOMAIN procs :
        /\ IsShell(p)
        /\ \E M \in NodesOfType(procs[p].root, "Multi") :
             \E k, j \in EventsOf(procs[p].log, "fork") :
                /\ j < k
                /\ procs[p].log[k][2] \in Cmds(M.second)
                /\ procs[p].log[j][2] \in Cmds(M.first)

\* the positions where the execution of a command of the tree raised
RaisedIn(log, node) ==
    {k \in EventsOf(log, "raise") : log[k][3] \in Cmds(node)}

\* the positions where CommandNode.execute was called on a command of the tree
ExecutedIn(log, node) ==
    {k \in EventsOf(log, "execute") : log[k][2] \in Cmds(node)}

\* C8 as stated: in a Multi node an error raised while executing the left
\* half does not prevent the right half from running: once the line is done,
\* the right half has been executed.
C8_RightRunsAfterLeftError ==
    \A p \in DOMAIN procs :
        LET P == procs[p]
        IN  (IsShell(p) /\ ExecuteDone(P)) =>
              \A M \in NodesOfType(P.root, "Multi") :
                 RaisedIn(P.log, M.first) # {} => ExecutedIn(P.log, M.second) # {}

\* C8 amended: in a Multi node an error raised while executing or waiting
\* for the left half leaves MultiNode.execute: the right half is not
\* executed, in any process.
C8_LeftErrorSkipsRight ==
    \A p \in DOMAIN procs :
        \A M \in NodesOfType(procs[p].root, "Multi") :
           RaisedIn(procs[p].log, M.first) # {} =>
              ExecutedIn(procs[p].log, M.second) = {}

\* Shell.execute has returned for a line whose Multi node failed in its left
\* half
C8_Witness ==
    \E p \in DOMAIN procs :
        /\ IsShell(p)
        /\ procs[p].st = "shell"
        /\ procs[p].outcome = "returned"
        /\ \E M \in NodesOfType(procs[p].root, "Multi") :
              RaisedIn(procs[p].log, M.first) # {}

\* in a log, every wait on a command of the second half of Pipe node Q
\* comes after a wait on each command of its first half
WaitsLeftThenRight(log, Q) ==
    \A k \in EventsOf(log, "wait") :
        log[k][2] \in Cmds(Q.second) =>
           \A c \in Cmds(Q.first) :
              \E j \in EventsOf(log, "wait") : j < k /\ log[j][2] = c

\* C9 as stated: within a Pipe node both halves are started before either
\* half is waited upon, and the waits go left then right, at every level of
\* nesting.
C9_BothStartedBeforeWait ==
    \A p \in DOMAIN procs :
        LET log == procs[p].log
        IN  \A Q \in NodesOfType(procs[p].root, "Pipe") :
              /\ \A k \in EventsOf(log, "wait") :
                    log[k][2] \in Cmds(Q) =>
                       \A c \in Cmds(Q) :
                          \E j \in Starts(log) : j < k /\ log[j][2] = c
              /\ WaitsLeftThenRight(log, Q)

\* C9 amended: within a Pipe node no command is started after a command of
\* the node has been waited upon; when a command of the node is waited upon,
\* every command of the node has been started, unless the execution of the
\* node raised an error before (the commands not started by then never
\* are); the waits go left then right, at every level of nesting.
C9_PipeStartsThenWaits ==
    \A p \in DOMAIN procs :
        LET log == procs[p].log
        IN  \A Q \in NodesOfType(procs[p].root, "Pipe") :
              /\ \A k \in EventsOf(log, "wait") :
                    log[k][2] \in Cmds(Q) =>
                       /\ \A j \in Starts(log) : log[j][2] \in Cmds(Q) => j < k
                       /\ \A c \in Cmds(Q) :
                             \/ \E j \in Starts(log) : j < k /\ log[j][2] = c
                             \/ \E j \in RaisedIn(log, Q) : j < k
              /\ WaitsLeftThenRight(log, Q)

\* the shell has started and waited for the three commands of a pipeline
\* nested in a pipeline
C9_Witness ==
    \E p \in DOMAIN procs :
        /\ IsShell(p)
        /\ \E Q \in NodesOfType(procs[p].root, "Pipe") :
              /\ Q.second.type = "Pipe"
              /\ \A c \in Cmds(Q) :
                    /\ \E j \in Starts(procs[p].log) : procs[p].log[j][2] = c
                    /\ \E k \in EventsOf(procs[p].log, "wait") :
                          procs[p].log[k][2] = c

(***************************************************************************)
(* The parser on every short line: the shell has read the line and         *)
(* Shell.execute parses it.                                                *)
(***************************************************************************)
ParseAlphabet == {"a", " ", ">", "<", "|", ";", "'"}

\* the sequences over S of length at most n
RECURSIVE SeqsUpTo(_, _)
SeqsUpTo(S, n) ==
    IF n = 0 THEN {<<>>}
    ELSE LET shorter == SeqsUpTo(S, n - 1)
         IN  shorter \cup {Append(s, c) : s \in shorter, c \in S}

InitParse ==
    /\ procs \in {(0 :> Shell_run_execute(NewShell, raw)) :
                     raw \in SeqsUpTo(ParseAlphabet, MaxParseLen)}
    /\ npid = 0
    /\ npipe = 0
    /\ nfile = 0
    /\ nread = 1
    /\ created = <<>>
    /\ tokenizer = Tokenizer(<<>>)
    /\ yielded = <<>>
    /\ iterst = "active"

NextParse == \E p \in Pids : Shell_parse(p)

SpecParse == InitParse /\ [][NextParse]_vars

(***************************************************************************)
(* Properties of the parser                                                *)
(***************************************************************************)
\* the tokens of the rest of the line, the EOF token left out (up to the
\* quoted word that the end of the line cuts short, if there is one)
RECURSIVE TokensFrom(_)
TokensFrom(t) ==
    Bind(token(t), LAMBDA r :
        IF r.raised \/ r.tok.ttype = "EOF" THEN <<>>
        ELSE <<r.tok>> \o TokensFrom(r.t))

TokensOf(string) == TokensFrom(Tokenizer(string))

\* the line lexes to a token sequence that ends with EOF
Lexes(string) == ~LexRaises(Tokenizer(string))

\* the grammar as an automaton over the token types, read from token i on.
\* States: "start" of a pipeline, "words" of a command, after a redirection
\* "operator", after a redirection "target", after a "pipe".
RECURSIVE GrammarRun(_, _, _)
GrammarRun(toks, i, state) ==
    IF i > Len(toks) THEN state \in {"start", "words", "target"}
    ELSE LET ty == toks[i].ttype
             redir == ty \in {"REDIRECT_OUT", "REDIRECT_APPEND", "REDIRECT_IN"}
             to == CASE state = "start" /\ ty = "WORD" -> "words"
                     [] state = "start" /\ ty = "COMMAND_END" -> "start"
                     [] state = "words" /\ ty = "WORD" -> "words"
                     [] state \in {"words", "target"} /\ redir -> "operator"
                     [] state \in {"words", "target"} /\ ty = "PIPE" -> "pipe"
                     [] state \in {"words", "target"} /\ ty = "COMMAND_END" -> "start"
                     [] state = "operator" /\ ty = "WORD" -> "target"
                     [] state = "pipe" /\ ty = "WORD" -> "words"
                     [] OTHER -> "reject"
         IN  to # "reject" /\ GrammarRun(toks, i + 1, to)

\* the tokens followed by EOF are a sentence of the grammar
Grammatical(toks) == GrammarRun(toks, 1, "start")

\* Shell.execute has parsed the line of process P
Parsed(P) ==
    \/ P.exc # "none"
    \/ P.outcome # "running"
    \/ Top(P.stack).fn = "Shell.execute" /\ Top(P.stack).pc > 1

\* the node and all nodes below it are well formed
RECURSIVE WellFormed(_)
WellFormed(node) ==
    CASE node.type = "Command" -> Len(node.args) >= 1
      [] node.type \in {"Pipe", "Multi"} ->
            /\ node.first # NoNode
            /\ node.second # NoNode
            /\ WellFormed(node.first)
            /\ WellFormed(node.second)
      [] node.type = "Redirections" ->
            /\ node.base # NoNode
            /\ Len(node.redirections) >= 1
            /\ WellFormed(node.base)
      [] OTHER -> FALSE

\* the kinds of event that the executor logs
ExecutorEvents ==
    {"execute", "builtin", "fork", "wait", "reap", "raise",
     "open", "enter", "exit", "close", "write"}

\* the open file descriptions of kind "file" in an fd table
FilesIn(fds) == {fds[k] : k \in {j \in DOMAIN fds : fds[j][1] = "file"}}

\* C17: when a line fails to parse, the executor is not invoked for any part
\* of it: no process is forked, no built-in runs and no redirection target
\* is opened, created or truncated, even when a complete command with
\* redirections stands before the error on the line.
C17_ParseErrorRunsNothing ==
    \A p \in DOMAIN procs :
        LET P == procs[p]
        IN  P.outcome = "parse error" =>
              /\ P.root = NoNode
              /\ \A i \in DOMAIN P.log : P.log[i][1] \notin ExecutorEvents
              /\ FilesIn(P.fds) \subseteq FilesIn(P.before)

\* a line with a complete command and a redirection before the error has
\* been rejected
C17_Witness ==
    \E p \in DOMAIN procs :
        /\ procs[p].outcome = "parse error"
        /\ procs[p].heap # <<>>
        /\ procs[p].line[1] = "a"

\* C14: every AST that Parser.parse returns is well formed at every node: a
\* Command has at least one argument word, a Pipe and a Multi have two
\* children that are not None, a Redirections node wraps a child that is not
\* None with at least one redirection.
C14_ASTWellFormed ==
    \A p \in DOMAIN procs :
        procs[p].root # NoNode => WellFormed(procs[p].root)

\* a pipeline whose first command has a redirection has been parsed
C14_Witness ==
    \E p \in DOMAIN procs :
        /\ procs[p].root.type = "Pipe"
        /\ procs[p].root.first.type = "Redirections"

\* C15: Parser.parse raises ParseError and returns no AST whenever the token
\* sequence of the line is not a sentence of the grammar: a redirection
\* operator without a WORD right after it, a "|" without a command after
\* it, or a token other than EOF left after the lines production.
C15_UngrammaticalIsParseError ==
    \A p \in DOMAIN procs :
        LET P == procs[p]
        IN  (Parsed(P) /\ Lexes(P.line) /\ ~Grammatical(TokensOf(P.line))) =>
              /\ P.outcome = "parse error"
              /\ P.root = NoNode
              /\ P.exc = "none"

\* a line that has a word after a redirection target has been rejected
C15_Witness ==
    \E p \in DOMAIN procs :
        /\ procs[p].outcome = "parse error"
        /\ [k \in DOMAIN TokensOf(procs[p].line) |-> TokensOf(procs[p].line)[k].ttype]
              = <<"WORD", "REDIRECT_OUT", "WORD", "WORD">>

\* the tokens cut at the COMMAND_END tokens, the empty pieces left out
RECURSIVE PipelinesOf(_, _)
PipelinesOf(toks, piece) ==
    IF toks = <<>> THEN (IF piece = <<>> THEN <<>> ELSE <<piece>>)
    ELSE IF Head(toks).ttype = "COMMAND_END"
    THEN (IF piece = <<>> THEN <<>> ELSE <<piece>>) \o PipelinesOf(Tail(toks), <<>>)
    ELSE PipelinesOf(Tail(toks), Append(piece, Head(toks)))

\* the lexemes of the WORD tokens, in order
RECURSIVE WordsOf(_)
WordsOf(toks) ==
    IF toks = <<>> THEN <<>>
    ELSE (IF Head(toks).ttype = "WORD" THEN <<Head(toks).lexeme>> ELSE <<>>)
         \o WordsOf(Tail(toks))

\* the halves of the chain of Multi nodes at the root, in order
RECURSIVE MultiHalves(_)
MultiHalves(node) ==
    IF node = NoNode THEN <<>>
    ELSE IF node.type = "Multi" THEN <<node.first>> \o MultiHalves(node.second)
    ELSE <<node>>

\* the words of a tree in source order: the arguments of its commands and
\* the file names of its redirections
RECURSIVE NodeWords(_, _)
NodeWords(node, heap) ==
    CASE node.type = "Command" -> node.args
      [] node.type = "Redirections" ->
            NodeWords(node.base, heap)
            \o [i \in DOMAIN node.redirections |-> heap[node.redirections[i]].filename]
      [] node.type \in {"Pipe", "Multi"} ->
            NodeWords(node.first, heap) \o NodeWords(node.second, heap)
      [] OTHER -> <<>>

\* C16: for every line made of pipelines separated by ";", with any number
\* of leading, trailing or repeated ";", the parse succeeds and the AST
\* holds exactly the non-empty pipelines in source order: a chain of Multi
\* nodes when there are several, the pipeline itself when there is one, and
\* None when there is none, in which case Shell.execute returns without
\* executing anything.
C16_SemicolonsKeepPipelines ==
    \A p \in DOMAIN procs :
        LET P == procs[p]
            pipelines == PipelinesOf(TokensOf(P.line), <<>>)
            halves == MultiHalves(P.root)
        IN  (Parsed(P) /\ Lexes(P.line) /\ Grammatical(TokensOf(P.line))) =>
              /\ P.exc = "none"
              /\ P.outcome # "parse error"
              /\ Len(halves) = Len(pipelines)
              /\ \A i \in DOMAIN halves :
                    /\ halves[i].type \in {"Command", "Redirections", "Pipe"}
                    /\ NodesOfType(halves[i], "Multi") = {}
                    /\ NodeWords(halves[i], P.heap) = WordsOf(pipelines[i])
                    /\ Cardinality(NodesOfType(halves[i], "Pipe"))
                          = Cardinality({k \in DOMAIN pipelines[i] :
                                           pipelines[i][k].ttype = "PIPE"})
              /\ pipelines = <<>> =>
                    /\ P.root = NoNode
                    /\ P.outcome = "returned"
                    /\ P.log = <<>>
                    /\ Top(P.stack).fn = "Shell.run"

\* a line with a leading and a trailing ";" around two commands has been
\* parsed into a Multi node
C16_Witness ==
    \E p \in DOMAIN procs :
        /\ procs[p].root.type = "Multi"
        /\ procs[p].line[1] = ";"
        /\ procs[p].line[Len(procs[p].line)] = ";"

(***************************************************************************)
(* The generator Tokenizer.__iter__ as a state machine: one action per     *)
(* resumption of the generator.                                            *)
(***************************************************************************)
LexLines == SeqsUpTo(LexAlphabet, MaxLen)

InitLex ==
    /\ tokenizer \in {Tokenizer(s) : s \in LexLines}
    /\ yielded = <<>>
    /\ iterst = "active"
    /\ procs = (0 :> NewShell)
    /\ npid = 0
    /\ npipe = 0
    /\ nfile = 0
    /\ nread = 0
    /\ created = <<>>

\* token() returns and the token is yielded
Tokenizer_iter_yield ==
    /\ iterst = "active"
    /\ LET r == token(tokenizer)
       IN  /\ ~r.raised
           /\ tokenizer' = r.t
           /\ yielded' = Append(yielded, r.tok)
           /\ iterst' = IF IterBreaks(r.tok) THEN "last" ELSE "active"
    /\ UNCHANGED exevars

\* token() raises ValueError, which ends the generator
Tokenizer_iter_raise ==
    /\ iterst = "active"
    /\ LET r == token(tokenizer)
       IN  /\ r.raised
           /\ tokenizer' = r.t
           /\ iterst' = "raised"
           /\ UNCHANGED yielded
    /\ UNCHANGED exevars

\* resumed after EOF was yielded: break, StopIteration
Tokenizer_iter_stop ==
    /\ iterst = "last"
    /\ iterst' = "finished"
    /\ UNCHANGED <<tokenizer, yielded>>
    /\ UNCHANGED exevars

NextLex ==
    \/ Tokenizer_iter_yield
    \/ Tokenizer_iter_raise
    \/ Tokenizer_iter_stop

SpecLex == InitLex /\ [][NextLex]_vars

\* the consumer of the generator keeps resuming it
SpecLexFair == SpecLex /\ WF_vars(NextLex)

(***************************************************************************)
(* Properties of the lexer                                                 *)
(***************************************************************************)
\* the token sequence s ends with an EOF token and has no other
EndsWithOneEOF(s) ==
    /\ s # <<>>
    /\ s[Len(s)].ttype = "EOF"
    /\ \A i \in 1..(Len(s) - 1) : s[i].ttype # "EOF"

\* the line holds a quote character that no later equal character closes
HasOpenQuote(string) ==
    \E i \in DOMAIN string :
        /\ string[i] \in {"'", "\""}
        /\ \A j \in (i + 1)..Len(string) : string[j] # string[i]

\* the generator has ended, by StopIteration or by an exception
IterEnded == iterst \in {"finished", "raised"}

\* C10 as stated: for every input line the token iterator ends, and the
\* tokens it has yielded then end with exactly one EOF token, with no EOF
\* token before the last position.
C10_EveryLineEndsWithEOF == IterEnded => EndsWithOneEOF(yielded)

C10_Safe ==
    /\ Len(yielded) <= Len(tokenizer.string) + 1
    /\ \A i \in 1..(Len(yielded) - 1) : yielded[i].ttype # "EOF"
    /\ iterst \in {"last", "finished"} => EndsWithOneEOF(yielded)
    /\ iterst = "raised" =>
          /\ HasOpenQuote(tokenizer.string)
          /\ \A i \in DOMAIN yielded : yielded[i].ttype # "EOF"
    /\ ~HasOpenQuote(tokenizer.string) => iterst # "raised"

\* C10 amended: for every input line the token iterator ends after at most
\* len(line) + 1 tokens; it never yields an EOF token before the last
\* position; when it ends by StopIteration the tokens end with exactly one
\* EOF token; it ends by ValueError instead, without any EOF token, only for
\* a line with a quote character that no later equal character closes.
C10_IteratorEnds == []C10_Safe /\ <>IterEnded

\* a line of several tokens has been lexed to its EOF
C10_Witness == iterst = "finished" /\ Len(yielded) >= 3

OperatorChars == {">", "<", "|", ";"}
QuoteChars == {"'", "\""}

\* the characters of the line that a token stands for
TokenText(tok) ==
    CASE tok.ttype = "WORD" -> tok.lexeme
      [] tok.ttype = "REDIRECT_OUT" -> <<">">>
      [] tok.ttype = "REDIRECT_APPEND" -> <<">", ">">>
      [] tok.ttype = "REDIRECT_IN" -> <<"<">>
      [] tok.ttype = "PIPE" -> <<"|">>
      [] tok.ttype = "COMMAND_END" -> <<";">>
      [] OTHER -> <<>>

\* the index in the line of the first character after token tok
TokenEnd(tok) == tok.position + Len(TokenText(tok)) + 1

\* the characters of the line from index a to index b are all whitespace
Blank(string, a, b) == \A i \in a..b : isspace(string[i])

NoQuotes(string) == \A i \in DOMAIN string : string[i] \notin QuoteChars

\* the tokens toks cut a line without quotes at its operators and its
\* whitespace: each token is the text it stands for, at its position; only
\* whitespace lies before, between and after the tokens; a WORD is non-empty
\* and holds no whitespace and no operator; two WORDs never touch; a
\* REDIRECT_OUT is not followed by another ">"
CutAtOperators(string, toks) ==
    LET n == Len(toks) - 1   \* the tokens before the EOF
    IN  /\ EndsWithOneEOF(toks)
        /\ toks[n + 1].position = Len(string)
        /\ \A k \in 1..n :
              LET tok == toks[k]
                  text == TokenText(tok)
              IN  /\ tok.ttype \in {"WORD", "REDIRECT_OUT", "REDIRECT_APPEND",
                                    "REDIRECT_IN", "PIPE", "COMMAND_END"}
                  /\ text # <<>>
                  /\ TokenEnd(tok) - 1 <= Len(string)
                  /\ SubSeq(string, tok.position + 1, TokenEnd(tok) - 1) = text
                  /\ tok.ttype = "WORD" =>
                        \A i \in DOMAIN text :
                            ~isspace(text[i]) /\ text[i] \notin OperatorChars
                  /\ tok.ttype # "WORD" => tok.lexeme = NoLexeme
                  /\ tok.ttype = "REDIRECT_OUT" =>
                        (TokenEnd(tok) <= Len(string) => string[TokenEnd(tok)] # ">")
                  /\ Blank(string, IF k = 1 THEN 1 ELSE TokenEnd(toks[k - 1]),
                           tok.position)
                  /\ (k > 1 /\ tok.ttype = "WORD" /\ toks[k - 1].ttype = "WORD") =>
                        TokenEnd(toks[k - 1]) <= tok.position
        /\ Blank(string, IF n = 0 THEN 1 ELSE TokenEnd(toks[n]), Len(string))

\* C11: outside quotes the operator characters > < | ; always end the word
\* before them and are tokens of their own, with or without whitespace
\* around them; ">>" is one REDIRECT_APPEND and a single ">" a REDIRECT_OUT;
\* an unquoted WORD is a maximal run of characters that are neither
\* whitespace nor operators.  Stated for every line without quote characters.
C11_OperatorsCutWords ==
    (iterst = "finished" /\ NoQuotes(tokenizer.string)) =>
        CutAtOperators(tokenizer.string, yielded)

\* a word, an operator and a word without whitespace between them are lexed
\* as three tokens
C11_Witness ==
    /\ iterst = "finished"
    /\ Len(tokenizer.string) = 3
    /\ [k \in DOMAIN yielded |-> yielded[k].ttype]
          = <<"WORD", "REDIRECT_OUT", "WORD", "EOF">>

\* the quoted regions of a line, read from index i on: <<a, b>> when the
\* quote character at index a is closed by the next equal character, at
\* index b; open is the index of the quote that is open, 0 outside quotes
RECURSIVE QuotedRegions(_, _, _)
QuotedRegions(string, i, open) ==
    IF i > Len(string) THEN {}
    ELSE IF open = 0
    THEN QuotedRegions(string, i + 1, IF string[i] \in QuoteChars THEN i ELSE 0)
    ELSE IF string[i] = string[open]
    THEN {<<open, i>>} \cup QuotedRegions(string, i + 1, 0)
    ELSE QuotedRegions(string, i + 1, open)

\* C12 as stated: every quoted region of a line yields a WORD token of its
\* own whose lexeme is exactly the characters between the quotes, also when
\* the region touches unquoted word characters on either side.
C12_QuotedRegionIsOwnWord ==
    iterst = "finished" =>
        \A r \in QuotedRegions(tokenizer.string, 1, 0) :
            \E k \in DOMAIN yielded :
                /\ yielded[k].ttype = "WORD"
                /\ yielded[k].position = r[1]
                /\ yielded[k].lexeme = SubSeq(tokenizer.string, r[1] + 1, r[2] - 1)

\* C13 as stated: only printable characters that are neither whitespace nor
\* operators are consumed into an unquoted WORD; any other character met
\* outside quotes, such as a control character, is emitted as an UNKNOWN
\* token that carries it.
C13_ControlCharIsUnknown ==
    (iterst = "finished" /\ NoQuotes(tokenizer.string)) =>
        /\ \A k \in DOMAIN yielded :
              yielded[k].ttype = "WORD" =>
                 \A i \in DOMAIN yielded[k].lexeme : yielded[k].lexeme[i] # "CTRL"
        /\ \A i \in DOMAIN tokenizer.string :
              tokenizer.string[i] = "CTRL" =>
                 \E k \in DOMAIN yielded :
                    yielded[k] = Token("UNKNOWN", <<"CTRL">>, i - 1)

====
